---- MODULE Spec2Model ----
(***************************************************************************)
(* Detection fusion and image analysis                                     *)
(* (backend/circuit_yolo_integration.py,                                   *)
(* backend/integrated_circuit_detector.py) and netlist compilation /       *)
(* validation (backend/app/netlist_generator.py), alone and as two         *)
(* interleaved calls, of the circuit-diagram pipeline, as state machines.  *)
(*                                                                         *)
(* Text is modelled at character level: a string is a sequence of          *)
(* one-character strings, so that prefix tests, case conversion,           *)
(* substring replacement and the regular expressions of the source are     *)
(* computed, not assumed.                                                  *)
(***************************************************************************)
EXTENDS Integers, Sequences, FiniteSets, TLC

VARIABLES
    \* ---- fusion: CircuitYOLOIntegration._combine_detections
    yolo_results, opencv_results, pattern_results,
    all_detections, combined, fpc, fk,
    \* ---- compilation: json_to_netlist and validate_netlist_string
    components,          \* parsed_json["components"]
    npc,                 \* where the caller / json_to_netlist stands
    ni,                  \* number of the component the loop is at (i + 1)
    lines, errors, warnings, component_counters,
    netlist_str,         \* the text json_to_netlist returned last
    validation,          \* what validate_netlist_string returned for it
    results,             \* the texts returned by the calls so far
    \* ---- detection: analyze_circuit_image and detect_circuit_components
    dpc,                 \* where analyze_circuit_image stands
    yolo_available,      \* CircuitYOLOIntegration.yolo_available
    options,             \* the options argument of analyze_circuit_image
    analysis_options,    \* config merged with options
    raised,              \* the detection sources in which an exception was raised
    yolo_components, opencv_components, pattern_components,
    result,              \* the result dict of detect_circuit_components
    \* ---- two calls of json_to_netlist at once
    calls,               \* the locals of each call
    tables,              \* the module-level dicts COMPONENT_MAPPING, DEFAULT_VALUES
    \* _convert_integrated_format
    apc,                 \* position in _convert_integrated_format
    integrated_result,   \* its argument, the detector's result
    assembled,           \* its local list components
    ak,                  \* index of the detected component being converted
    \* normalize_value called on two value strings
    vpc,                 \* position: "idle", "call", "returned"
    inputs,              \* the two arguments, each as digits, suffix and unit
    normalized           \* the results so far

fusionVars == <<yolo_results, opencv_results, pattern_results,
                all_detections, combined, fpc, fk>>

netlistVars == <<components, npc, ni, lines, errors, warnings,
                 component_counters, netlist_str, validation, results>>

detectVars == <<dpc, yolo_available, options, analysis_options, raised,
                yolo_components, opencv_components, pattern_components, result>>

concVars == <<calls, tables>>
assembleVars == <<apc, integrated_result, assembled, ak>>
normalizeVars == <<vpc, inputs, normalized>>

vars == <<fusionVars, netlistVars, detectVars, concVars, assembleVars,
         normalizeVars>>

(***************************************************************************)
(* Bounds and input pools                                                  *)
(***************************************************************************)
\* most detections handed to one fusion call (all three sources together)
MaxDet == 3

\* most component records in one parsed_json
MaxComps == 2

\* calls of json_to_netlist on the same component list
MaxCalls == 2

\* most detections one detection source finds in an image
MaxFound == 1

\* most components in a detector result handed to the assembler
MaxAssembled == 2

\* most connections in a detector result handed to the assembler
MaxWires == 6

\* connections[:5]: the connections the assembler looks at
WireLimit == 5

\* bounding boxes [x1, y1, x2, y2]; BoxA/BoxC and BoxC/BoxB overlap with
\* IoU 3/5, BoxA/BoxB with IoU 1/3; NoBox is a detection without a usable bbox
BoxA == <<0, 0, 4, 1>>
BoxB == <<2, 0, 6, 1>>
BoxC == <<1, 0, 5, 1>>
NoBox == <<>>
BBoxes == {BoxA, BoxB, BoxC, NoBox}

\* confidences, in tenths
Confidences == {1, 2}

\* IoU threshold 0.5 passed by _combine_detections, as a fraction
ThresholdNum == 1
ThresholdDen == 2

(***************************************************************************)
(* Generic helpers                                                         *)
(***************************************************************************)
Max2(a, b) == IF a >= b THEN a ELSE b
Min2(a, b) == IF a <= b THEN a ELSE b

SeqsUpTo(S, n) == UNION {[1..m -> S] : m \in 0..n}

\* list.remove(x) for the element at position p, then the order is kept
RemoveAt(s, p) == [j \in 1..(Len(s) - 1) |-> IF j < p THEN s[j] ELSE s[j + 1]]

(***************************************************************************)
(* _is_overlap(detection1, detection2, threshold)                          *)
(***************************************************************************)
is_overlap(detection1, detection2) ==
    LET bbox1 == detection1.bbox
        bbox2 == detection2.bbox
    IN  IF Len(bbox1) # 4 \/ Len(bbox2) # 4 THEN FALSE
        ELSE
        LET x1_max == Max2(bbox1[1], bbox2[1])
            y1_max == Max2(bbox1[2], bbox2[2])
            x2_min == Min2(bbox1[3], bbox2[3])
            y2_min == Min2(bbox1[4], bbox2[4])
        IN  IF x2_min <= x1_max \/ y2_min <= y1_max THEN FALSE
            ELSE
            LET intersection_area == (x2_min - x1_max) * (y2_min - y1_max)
                area1 == (bbox1[3] - bbox1[1]) * (bbox1[4] - bbox1[2])
                area2 == (bbox2[3] - bbox2[1]) * (bbox2[4] - bbox2[2])
                union_area == area1 + area2 - intersection_area
            IN  \* iou = intersection / union if union > 0 else 0;  iou > threshold
                union_area > 0
                /\ ThresholdDen * intersection_area > ThresholdNum * union_area

(***************************************************************************)
(* _combine_detections                                                     *)
(***************************************************************************)
\* position of the first accepted entry the detection overlaps, 0 if none
\* (the inner "for existing in combined" loop leaves at its first hit)
FirstOverlap(detection, acc) ==
    LET hits == {p \in 1..Len(acc) : is_overlap(detection, acc[p])}
    IN  IF hits = {} THEN 0 ELSE CHOOSE p \in hits : \A q \in hits : p <= q

\* a fusion rule with the comparison turned round: the weaker detection wins
WeakerWins(detection, existing) == detection.confidence < existing.confidence

\* the incoming detection wins over the accepted entry it overlaps
Wins(detection, existing) == detection.confidence > existing.confidence

\* a fusion that writes the winning detection over the entry it replaces
FuseInPlace(acc, detection) ==
    LET p == FirstOverlap(detection, acc)
    IN  IF p = 0 THEN Append(acc, detection)
        ELSE IF Wins(detection, acc[p])
             THEN [acc EXCEPT ![p] = detection]
             ELSE acc

\* one pass of the outer loop body
Fuse(acc, detection) ==
    LET p == FirstOverlap(detection, acc)
    IN  IF p = 0 THEN Append(acc, detection)
        ELSE IF Wins(detection, acc[p])
             THEN Append(RemoveAt(acc, p), detection)
             ELSE acc

Detection(n, b, c) == [id |-> n, bbox |-> b, confidence |-> c]

\* no compilation is running
NetlistIdle ==
    /\ components = <<>>
    /\ npc = "idle"
    /\ ni = 0
    /\ lines = <<>>
    /\ errors = <<>>
    /\ warnings = <<>>
    /\ component_counters = <<>>
    /\ netlist_str = <<>>
    /\ validation = <<>>
    /\ results = <<>>

\* no concurrent calls are running
NormalizeIdle ==
    /\ vpc = "idle"
    /\ inputs = <<>>
    /\ normalized = <<>>

AssembleIdle ==
    /\ apc = "idle"
    /\ integrated_result = [components |-> <<>>, connections |-> 0]
    /\ assembled = <<>>
    /\ ak = 0

ConcIdle ==
    /\ calls = <<>>
    /\ tables = <<>>

\* no image is being analysed
DetectIdle ==
    /\ dpc = "idle"
    /\ yolo_available = FALSE
    /\ options = <<>>
    /\ analysis_options = <<>>
    /\ raised = {}
    /\ yolo_components = <<>>
    /\ opencv_components = <<>>
    /\ pattern_components = <<>>
    /\ result = <<>>

\* no fusion is running
FusionIdle ==
    /\ yolo_results = <<>>
    /\ opencv_results = <<>>
    /\ pattern_results = <<>>
    /\ all_detections = <<>>
    /\ combined = <<>>
    /\ fpc = "idle"
    /\ fk = 0

InitFusion ==
    \E shapes \in SeqsUpTo(BBoxes \X Confidences, MaxDet) :
      \E c1 \in 0..Len(shapes) : \E c2 \in c1..Len(shapes) :
        LET dets == [n \in 1..Len(shapes) |->
                        Detection(n, shapes[n][1], shapes[n][2])]
        IN  /\ yolo_results = SubSeq(dets, 1, c1)
            /\ opencv_results = SubSeq(dets, c1 + 1, c2)
            /\ pattern_results = SubSeq(dets, c2 + 1, Len(dets))
            /\ all_detections = <<>>
            /\ combined = <<>>
            /\ fpc = "call"
            /\ fk = 0
            /\ NetlistIdle
            /\ DetectIdle
            /\ ConcIdle
            /\ AssembleIdle
            /\ NormalizeIdle

CombineStart ==
    /\ fpc = "call"
    /\ all_detections' = yolo_results \o opencv_results \o pattern_results
    /\ combined' = <<>>
    /\ fk' = 1
    /\ fpc' = "loop"
    /\ UNCHANGED <<yolo_results, opencv_results, pattern_results>>
    /\ UNCHANGED netlistVars
    /\ UNCHANGED detectVars
    /\ UNCHANGED <<concVars, assembleVars, normalizeVars>>

CombineStep ==
    /\ fpc = "loop"
    /\ fk <= Len(all_detections)
    /\ combined' = Fuse(combined, all_detections[fk])
    /\ fk' = fk + 1
    /\ UNCHANGED <<yolo_results, opencv_results, pattern_results,
                   all_detections, fpc>>
    /\ UNCHANGED netlistVars
    /\ UNCHANGED detectVars
    /\ UNCHANGED <<concVars, assembleVars, normalizeVars>>

CombineReturn ==
    /\ fpc = "loop"
    /\ fk > Len(all_detections)
    /\ fpc' = "returned"
    /\ UNCHANGED <<yolo_results, opencv_results, pattern_results,
                   all_detections, combined, fk>>
    /\ UNCHANGED netlistVars
    /\ UNCHANGED detectVars
    /\ UNCHANGED <<concVars, assembleVars, normalizeVars>>

NextFusion == CombineStart \/ CombineStep \/ CombineReturn

SpecFusion == InitFusion /\ [][NextFusion]_vars

(***************************************************************************)
(* analyze_circuit_image and detect_circuit_components                     *)
(***************************************************************************)
\* config['max_components'] (integrated_circuit_detector.py line 48)
DefaultMaxComponents == 50

\* the caps a caller passes in options
OptionCaps == {1, 2}

\* the boxes the sources report: BoxA and BoxB do not overlap, a box reported
\* twice overlaps itself
SceneBoxes == {BoxA, BoxB}

\* YOLO confidences, in tenths: below and above the fixed confidences of the
\* other two sources
YoloConfidences == {2, 8}

\* the dict a source appends for one finding; "id" is set by the classification
Finding(method, n, type, bbox, confidence) ==
    [obj |-> <<method, n>>, detection_method |-> method, type |-> type,
     bbox |-> bbox, confidence |-> confidence, id |-> 0]

\* what a source hands back: its findings in the order it appended them
Found(method, shapes) ==
    [n \in 1..Len(shapes) |->
        Finding(method, n, shapes[n][1], shapes[n][2], shapes[n][3])]

\* _yolo_detect_components: a mapped YOLO class, the model's box and confidence
YoloFinds == {"unknown_object", "schematic"} \X SceneBoxes \X YoloConfidences

\* _opencv_detect_components: a contour classified by shape, confidence 0.7
OpenCVFinds == {"resistor"} \X SceneBoxes \X {7}

\* _pattern_detect_components: a circle (0.6) or a rectangle (0.5)
PatternFinds ==
    ({"capacitor-unpolarized"} \X SceneBoxes \X {6})
        \cup ({"resistor"} \X SceneBoxes \X {5})

\* self.config of IntegratedCircuitDetector (lines 39-49)
Config == [max_components |-> DefaultMaxComponents]

\* analysis_options = self.config.copy(); analysis_options.update(options)
MergeOptions(config, opts) ==
    IF opts = <<>> THEN config
    ELSE [config EXCEPT !.max_components = opts.max_components]

\* the result dict as detect_circuit_components creates it (lines 168-181)
InitialResult ==
    [components |-> <<>>, total_components |-> 0,
     detection_quality |-> "unknown", error |-> "None"]

\* the types _classify_circuit_components drops
NonCircuitTypes == {"operator", "test_equipment", "mobile_device", "unknown_object"}

RECURSIVE ClassifyFrom(_, _, _)
ClassifyFrom(detections, k, circuit_components) ==
    IF k > Len(detections) THEN circuit_components
    ELSE IF detections[k].type \in NonCircuitTypes
    THEN ClassifyFrom(detections, k + 1, circuit_components)
    ELSE ClassifyFrom(detections, k + 1,
            Append(circuit_components,
                   [detections[k] EXCEPT !.id = Len(circuit_components) + 1]))

classify_circuit_components(detections) == ClassifyFrom(detections, 1, <<>>)

\* the loop writes 'id' (and category, symbol, detection_hints) into the dict
\* it was handed and appends that same dict: a record held by another list
\* shows the keys written when its dict was kept
Classified(d, circuit_components) ==
    IF \E k \in 1..Len(circuit_components) : circuit_components[k].obj = d.obj
    THEN circuit_components[CHOOSE k \in 1..Len(circuit_components) :
                                circuit_components[k].obj = d.obj]
    ELSE d

\* a list of detection dicts as it reads after the classification
Aliased(detections, circuit_components) ==
    [n \in 1..Len(detections) |-> Classified(detections[n], circuit_components)]

RECURSIVE SumConfidence(_)
SumConfidence(cs) ==
    IF cs = <<>> THEN 0 ELSE cs[1].confidence + SumConfidence(Tail(cs))

\* avg_confidence = np.mean([...]) against 0.8 and 0.6; the mean of an empty
\* list is nan, which is above neither
DetectionQuality(circuit_components) ==
    LET n == Len(circuit_components)
        total == SumConfidence(circuit_components)
    IN  IF n > 0 /\ total > 8 * n THEN "high"
        ELSE IF n > 0 /\ total > 6 * n THEN "medium"
        ELSE "low"

\* _combine_detections as one function of its three arguments
RECURSIVE CombineFrom(_, _, _)
CombineFrom(acc, detections, k) ==
    IF k > Len(detections) THEN acc
    ELSE CombineFrom(Fuse(acc, detections[k]), detections, k + 1)

combine_detections(yolo, opencv, pattern) ==
    CombineFrom(<<>>, yolo \o opencv \o pattern, 1)

InitDetect ==
    /\ dpc = "call"
    /\ yolo_available \in BOOLEAN
    /\ options \in {<<>>} \cup {[max_components |-> n] : n \in OptionCaps}
    /\ analysis_options = <<>>
    /\ raised = {}
    /\ yolo_components = <<>>
    /\ opencv_components = <<>>
    /\ pattern_components = <<>>
    /\ result = <<>>
    /\ FusionIdle
    /\ NetlistIdle
    /\ ConcIdle
    /\ AssembleIdle
    /\ NormalizeIdle

\* analyze_circuit_image lines 77-83 and detect_circuit_components lines
\* 168-190: the options are merged, the result dict is created, the image is read
AnalyzeStart ==
    /\ dpc = "call"
    /\ analysis_options' = MergeOptions(Config, options)
    /\ \E loaded \in BOOLEAN :
         IF loaded
         THEN /\ result' = InitialResult
              /\ dpc' = "yolo"
         ELSE \* raise ValueError, caught at line 256
              /\ result' = [InitialResult EXCEPT !.error = "Could not load image"]
              /\ dpc' = "detected"
    /\ UNCHANGED <<yolo_available, options, raised, yolo_components,
                   opencv_components, pattern_components>>
    /\ UNCHANGED fusionVars
    /\ UNCHANGED netlistVars
    /\ UNCHANGED <<concVars, assembleVars, normalizeVars>>

\* lines 193-199 with _yolo_detect_components: an exception leaves []
DetectYolo ==
    /\ dpc = "yolo"
    /\ IF yolo_available
       THEN \E shapes \in SeqsUpTo(YoloFinds, MaxFound) : \E fails \in BOOLEAN :
              /\ yolo_components' = IF fails THEN <<>> ELSE Found("yolo", shapes)
              /\ raised' = IF fails THEN raised \cup {"yolo"} ELSE raised
       ELSE /\ yolo_components' = <<>>
            /\ UNCHANGED raised
    /\ dpc' = "opencv"
    /\ UNCHANGED <<yolo_available, options, analysis_options,
                   opencv_components, pattern_components, result>>
    /\ UNCHANGED fusionVars
    /\ UNCHANGED netlistVars
    /\ UNCHANGED <<concVars, assembleVars, normalizeVars>>

\* line 202 with _opencv_detect_components: the except clause logs and the
\* components appended before the exception are returned
DetectOpenCV ==
    /\ dpc = "opencv"
    /\ \E shapes \in SeqsUpTo(OpenCVFinds, MaxFound) : \E fails \in BOOLEAN :
         /\ opencv_components' = Found("opencv", shapes)
         /\ raised' = IF fails THEN raised \cup {"opencv"} ELSE raised
    /\ dpc' = "pattern"
    /\ UNCHANGED <<yolo_available, options, analysis_options,
                   yolo_components, pattern_components, result>>
    /\ UNCHANGED fusionVars
    /\ UNCHANGED netlistVars
    /\ UNCHANGED <<concVars, assembleVars, normalizeVars>>

\* line 206 with _pattern_detect_components, likewise
DetectPattern ==
    /\ dpc = "pattern"
    /\ \E shapes \in SeqsUpTo(PatternFinds, MaxFound) : \E fails \in BOOLEAN :
         /\ pattern_components' = Found("pattern", shapes)
         /\ raised' = IF fails THEN raised \cup {"pattern"} ELSE raised
    /\ dpc' = "combine"
    /\ UNCHANGED <<yolo_available, options, analysis_options,
                   yolo_components, opencv_components, result>>
    /\ UNCHANGED fusionVars
    /\ UNCHANGED netlistVars
    /\ UNCHANGED <<concVars, assembleVars, normalizeVars>>

\* lines 213-215: the call of _combine_detections
DetectCombine ==
    /\ dpc = "combine"
    /\ fpc = "idle"
    /\ yolo_results' = yolo_components
    /\ opencv_results' = opencv_components
    /\ pattern_results' = pattern_components
    /\ fpc' = "call"
    /\ UNCHANGED <<all_detections, combined, fk>>
    /\ UNCHANGED detectVars
    /\ UNCHANGED netlistVars
    /\ UNCHANGED <<concVars, assembleVars, normalizeVars>>

\* lines 218-258: classification, the result dict, the detection quality;
\* the dicts classified are the ones the source lists and the fused list hold
DetectClassify ==
    /\ dpc = "combine"
    /\ fpc = "returned"
    /\ LET circuit_components == classify_circuit_components(combined)
       IN  /\ result' = [result EXCEPT
                           !.components = circuit_components,
                           !.total_components = Len(circuit_components),
                           !.detection_quality = DetectionQuality(circuit_components)]
           /\ combined' = Aliased(combined, circuit_components)
           /\ all_detections' = Aliased(all_detections, circuit_components)
           /\ yolo_results' = Aliased(yolo_results, circuit_components)
           /\ opencv_results' = Aliased(opencv_results, circuit_components)
           /\ pattern_results' = Aliased(pattern_results, circuit_components)
           /\ yolo_components' = Aliased(yolo_components, circuit_components)
           /\ opencv_components' = Aliased(opencv_components, circuit_components)
           /\ pattern_components' = Aliased(pattern_components, circuit_components)
    /\ dpc' = "detected"
    /\ UNCHANGED <<yolo_available, options, analysis_options, raised>>
    /\ UNCHANGED <<fpc, fk>>
    /\ UNCHANGED netlistVars
    /\ UNCHANGED <<concVars, assembleVars, normalizeVars>>

\* analyze_circuit_image lines 85-106: the result is returned with its
\* components as detect_circuit_components left them
AnalyzeReturn ==
    /\ dpc = "detected"
    /\ dpc' = "returned"
    /\ UNCHANGED <<yolo_available, options, analysis_options, raised,
                   yolo_components, opencv_components, pattern_components,
                   result>>
    /\ UNCHANGED fusionVars
    /\ UNCHANGED netlistVars
    /\ UNCHANGED <<concVars, assembleVars, normalizeVars>>

NextDetect ==
    \/ AnalyzeStart
    \/ DetectYolo
    \/ DetectOpenCV
    \/ DetectPattern
    \/ DetectCombine
    \/ CombineStart
    \/ CombineStep
    \/ CombineReturn
    \/ DetectClassify
    \/ AnalyzeReturn

SpecDetect == InitDetect /\ [][NextDetect]_vars

(***************************************************************************)
(* Text: a string is a sequence of one-character strings                   *)
(***************************************************************************)
\* str.lower / str.upper on the ASCII letters
UpperToLower ==
    [A |-> "a", B |-> "b", C |-> "c", D |-> "d", E |-> "e", F |-> "f", G |-> "g", H |-> "h", I |-> "i", J |-> "j", K |-> "k", L |-> "l", M |-> "m", N |-> "n", O |-> "o", P |-> "p", Q |-> "q", R |-> "r", S |-> "s", T |-> "t", U |-> "u", V |-> "v", W |-> "w", X |-> "x", Y |-> "y", Z |-> "z"]
LowerToUpper ==
    [a |-> "A", b |-> "B", c |-> "C", d |-> "D", e |-> "E", f |-> "F", g |-> "G", h |-> "H", i |-> "I", j |-> "J", k |-> "K", l |-> "L", m |-> "M", n |-> "N", o |-> "O", p |-> "P", q |-> "Q", r |-> "R", s |-> "S", t |-> "T", u |-> "U", v |-> "V", w |-> "W", x |-> "X", y |-> "Y", z |-> "Z"]
LowerChar(c) == IF c \in DOMAIN UpperToLower THEN UpperToLower[c] ELSE c
UpperChar(c) == IF c \in DOMAIN LowerToUpper THEN LowerToUpper[c] ELSE c
Lower(s) == [n \in 1..Len(s) |-> LowerChar(s[n])]
Upper(s) == [n \in 1..Len(s) |-> UpperChar(s[n])]

Whitespace == {" ", "\n", "\t"}
Digits == <<"0", "1", "2", "3", "4", "5", "6", "7", "8", "9">>
DigitChars == {Digits[n] : n \in 1..10}

\* str.startswith
StartsWith(s, prefix) ==
    Len(s) >= Len(prefix) /\ SubSeq(s, 1, Len(prefix)) = prefix

\* sub in s
Contains(s, sub) ==
    \E n \in 1..(Len(s) - Len(sub) + 1) : SubSeq(s, n, n + Len(sub) - 1) = sub

\* str.strip
RECURSIVE LStrip(_)
LStrip(s) == IF s # <<>> /\ Head(s) \in Whitespace THEN LStrip(Tail(s)) ELSE s
RECURSIVE RStrip(_)
RStrip(s) ==
    IF s # <<>> /\ s[Len(s)] \in Whitespace
    THEN RStrip(SubSeq(s, 1, Len(s) - 1)) ELSE s
Strip(s) == RStrip(LStrip(s))

\* str.replace(old, new): left to right, non-overlapping (old is not empty)
RECURSIVE Replace(_, _, _)
Replace(s, old, new) ==
    IF Len(s) < Len(old) THEN s
    ELSE IF SubSeq(s, 1, Len(old)) = old
         THEN new \o Replace(SubSeq(s, Len(old) + 1, Len(s)), old, new)
         ELSE <<Head(s)>> \o Replace(Tail(s), old, new)

\* str.split(sep) for a one-character separator: always at least one piece
RECURSIVE Split(_, _)
Split(s, sep) ==
    IF \A n \in 1..Len(s) : s[n] # sep THEN <<s>>
    ELSE LET p == CHOOSE n \in 1..Len(s) :
                    s[n] = sep /\ \A q \in 1..(n - 1) : s[q] # sep
         IN  <<SubSeq(s, 1, p - 1)>> \o Split(SubSeq(s, p + 1, Len(s)), sep)

\* sep.join(pieces)
RECURSIVE Join(_, _)
Join(pieces, sep) ==
    IF pieces = <<>> THEN <<>>
    ELSE IF Len(pieces) = 1 THEN pieces[1]
    ELSE pieces[1] \o sep \o Join(Tail(pieces), sep)

\* str(n) for a natural number
RECURSIVE IntToStr(_)
IntToStr(n) ==
    IF n < 10 THEN <<Digits[n + 1]>>
    ELSE IntToStr(n \div 10) \o <<Digits[(n % 10) + 1]>>

\* the words of a statement joined by single blanks (an f-string "{a} {b} {c}")
Words(ws) == Join(ws, <<" ">>)


(***************************************************************************)
(* Python values of a component record: a str (its characters), an int,    *)
(* None, or a list of node identifiers                                     *)
(***************************************************************************)
PStr(s) == [t |-> "str", v |-> s]
PInt(n) == [t |-> "int", v |-> n]
PNone == [t |-> "none", v |-> 0]
PList(l) == [t |-> "list", v |-> l]

\* the None a function returns
None == "None"


(***************************************************************************)
(* COMPONENT_MAPPING and DEFAULT_VALUES                                    *)
(***************************************************************************)
COMPONENT_MAPPING == <<
    <<<<"r", "e", "s", "i", "s", "t", "o", "r">>, "R">>,
    <<<<"r">>, "R">>,
    <<<<"r", "e", "s", "i", "s", "t", "o", "r", "-", "a", "d", "j", "u", "s", "t", "a", "b", "l", "e">>, "R">>,
    <<<<"r", "e", "s", "i", "s", "t", "o", "r", "-", "p", "h", "o", "t", "o">>, "R">>,
    <<<<"v", "a", "r", "i", "s", "t", "o", "r">>, "R">>,
    <<<<"c", "a", "p", "a", "c", "i", "t", "o", "r">>, "C">>,
    <<<<"c">>, "C">>,
    <<<<"c", "a", "p", "a", "c", "i", "t", "o", "r", "-", "p", "o", "l", "a", "r", "i", "z", "e", "d">>, "C">>,
    <<<<"c", "a", "p", "a", "c", "i", "t", "o", "r", "-", "u", "n", "p", "o", "l", "a", "r", "i", "z", "e", "d">>, "C">>,
    <<<<"i", "n", "d", "u", "c", "t", "o", "r">>, "L">>,
    <<<<"l">>, "L">>,
    <<<<"t", "r", "a", "n", "s", "f", "o", "r", "m", "e", "r">>, "T">>,
    <<<<"v", "o", "l", "t", "a", "g", "e", "s", "o", "u", "r", "c", "e">>, "V">>,
    <<<<"v", "o", "l", "t", "a", "g", "e", "-", "d", "c">>, "V">>,
    <<<<"v", "o", "l", "t", "a", "g", "e", "-", "d", "c", "_", "a", "c">>, "V">>,
    <<<<"v", "o", "l", "t", "a", "g", "e", "-", "d", "c", "_", "r", "e", "g", "u", "l", "a", "t", "o", "r">>, "V">>,
    <<<<"v">>, "V">>,
    <<<<"v", "o", "l", "t", "a", "g", "e">>, "V">>,
    <<<<"b", "a", "t", "t", "e", "r", "y">>, "V">>,
    <<<<"c", "u", "r", "r", "e", "n", "t", "s", "o", "u", "r", "c", "e">>, "I">>,
    <<<<"i">>, "I">>,
    <<<<"c", "u", "r", "r", "e", "n", "t">>, "I">>,
    <<<<"d", "i", "o", "d", "e">>, "D">>,
    <<<<"d">>, "D">>,
    <<<<"d", "i", "o", "d", "e", "-", "l", "i", "g", "h", "t", "_", "e", "m", "i", "t", "t", "i", "n", "g">>, "D">>,
    <<<<"l", "e", "d">>, "D">>,
    <<<<"t", "r", "a", "n", "s", "i", "s", "t", "o", "r">>, "Q">>,
    <<<<"n", "p", "n">>, "Q">>,
    <<<<"p", "n", "p">>, "Q">>,
    <<<<"b", "j", "t">>, "Q">>,
    <<<<"t", "r", "a", "n", "s", "i", "s", "t", "o", "r", "-", "p", "h", "o", "t", "o">>, "Q">>,
    <<<<"m", "o", "s", "f", "e", "t">>, "M">>,
    <<<<"m", "o", "s", "f", "e", "t", "-", "n">>, "M">>,
    <<<<"m", "o", "s", "f", "e", "t", "-", "p">>, "M">>,
    <<<<"g", "r", "o", "u", "n", "d">>, "GND">>,
    <<<<"g", "n", "d">>, "GND">>,
    <<<<"v", "s", "s">>, "GND">>,
    <<<<"d", "i", "a", "c">>, "D">>,
    <<<<"t", "r", "i", "a", "c">>, "Q">>,
    <<<<"t", "h", "y", "r", "i", "s", "t", "o", "r">>, "Q">>,
    <<<<"o", "p", "e", "r", "a", "t", "i", "o", "n", "a", "l", "_", "a", "m", "p", "l", "i", "f", "i", "e", "r">>, "OP">>,
    <<<<"o", "p", "a", "m", "p">>, "OP">>,
    <<<<"s", "c", "h", "m", "i", "t", "t", "_", "t", "r", "i", "g", "g", "e", "r">>, "ST">>,
    <<<<"i", "n", "t", "e", "g", "r", "a", "t", "e", "d", "_", "c", "i", "r", "c", "u", "i", "t">>, "IC">>,
    <<<<"i", "n", "t", "e", "g", "r", "a", "t", "e", "d", "_", "c", "r", "i", "c", "u", "i", "t", "-", "n", "e", "5", "5", "5">>, "IC">>,
    <<<<"f", "u", "s", "e">>, "R">>,
    <<<<"s", "w", "i", "t", "c", "h">>, "SW">>,
    <<<<"r", "e", "l", "a", "y">>, "SW">>,
    <<<<"a", "n", "t", "e", "n", "n", "a">>, "R">>,
    <<<<"s", "p", "e", "a", "k", "e", "r">>, "R">>,
    <<<<"m", "i", "c", "r", "o", "p", "h", "o", "n", "e">>, "R">>,
    <<<<"m", "o", "t", "o", "r">>, "R">>,
    <<<<"l", "a", "m", "p">>, "R">>,
    <<<<"p", "r", "o", "b", "e", "-", "c", "u", "r", "r", "e", "n", "t">>, "PROBE">>,
    <<<<"o", "p", "t", "o", "c", "o", "u", "p", "l", "e", "r">>, "OC">>,
    <<<<"t", "e", "r", "m", "i", "n", "a", "l">>, "TERM">>,
    <<<<"s", "o", "c", "k", "e", "t">>, "TERM">>,
    <<<<"c", "r", "o", "s", "s", "o", "v", "e", "r">>, "CROSS">>,
    <<<<"a", "n", "d">>, "LOGIC">>,
    <<<<"o", "r">>, "LOGIC">>,
    <<<<"n", "o", "t">>, "LOGIC">>,
    <<<<"n", "a", "n", "d">>, "LOGIC">>,
    <<<<"n", "o", "r">>, "LOGIC">>,
    <<<<"x", "o", "r">>, "LOGIC">>
>>

\* COMPONENT_MAPPING.get(key)
MappingGet(key) ==
    IF \E n \in 1..Len(COMPONENT_MAPPING) : COMPONENT_MAPPING[n][1] = key
    THEN COMPONENT_MAPPING[CHOOSE n \in 1..Len(COMPONENT_MAPPING) :
                                COMPONENT_MAPPING[n][1] = key][2]
    ELSE None

DEFAULT_VALUES ==
    [R |-> <<"1", "k">>,
     C |-> <<"1", "u">>,
     L |-> <<"1", "m">>,
     V |-> <<"5">>,
     I |-> <<"1", "m">>,
     D |-> <<"D", "1", "N", "4", "1", "4", "8">>,
     Q |-> <<"Q", "2", "N", "2", "2", "2", "2">>,
     M |-> <<"I", "R", "F", "5", "4", "0">>]

\* DEFAULT_VALUES.get(spice_type, '1')
DefaultValue(spice_type) ==
    IF spice_type \in DOMAIN DEFAULT_VALUES THEN DEFAULT_VALUES[spice_type]
    ELSE <<"1">>


(***************************************************************************)
(* normalize_value                                                         *)
(***************************************************************************)
\* the values normalize_value treats as absent
UnknownWords == {<<"u", "n", "k", "n", "o", "w", "n">>, <<"n", "/", "a">>, <<"a", "u", "t", "o">>}

\* the unit replacements, in the order the dict is iterated
Conversions == <<
    <<<<"ohm_sign">>, <<>>>>,
    <<<<"O", "H", "M">>, <<>>>>,
    <<<<"O", "H", "M", "S">>, <<>>>>,
    <<<<"V">>, <<>>>>,
    <<<<"A">>, <<>>>>,
    <<<<"F">>, <<>>>>,
    <<<<"H">>, <<>>>>,
    <<<<"U", "F">>, <<"u">>>>,
    <<<<"P", "F">>, <<"p">>>>,
    <<<<"N", "F">>, <<"n">>>>,
    <<<<"M", "H">>, <<"m">>>>,
    <<<<"U", "H">>, <<"u">>>>,
    <<<<"N", "H">>, <<"n">>>>
>>

RECURSIVE ApplyConversions(_, _)
ApplyConversions(v, n) ==
    IF n > Len(Conversions) THEN v
    ELSE ApplyConversions(Replace(v, Conversions[n][1], Conversions[n][2]), n + 1)

NumberChars == DigitChars \cup {"."}
SuffixChars == {"k", "m", "g", "t", "p", "n", "u", "K", "M", "G", "T", "P", "N", "U"}

\* length of the longest prefix of s made of characters of cs
RECURSIVE PrefixRun(_, _)
PrefixRun(s, cs) ==
    IF s # <<>> /\ Head(s) \in cs THEN 1 + PrefixRun(Tail(s), cs) ELSE 0

\* re.match(r'^[\d.]+[kmgtpnumKMGTPNU]*$', v)
MatchesValueFormat(v) ==
    LET d == PrefixRun(v, NumberChars)
    IN  d >= 1 /\ \A n \in (d + 1)..Len(v) : v[n] \in SuffixChars

\* re.search(r'[\d.]+', v): the first maximal run of digits and dots; the empty
\* text stands for "no match"
RECURSIVE NumericPart(_)
NumericPart(v) ==
    IF v = <<>> THEN <<>>
    ELSE IF Head(v) \in NumberChars THEN SubSeq(v, 1, PrefixRun(v, NumberChars))
    ELSE NumericPart(Tail(v))

\* "not v" for a Python value
Falsy(v) ==
    \/ v.t = "none"
    \/ v.t = "int" /\ v.v = 0
    \/ v.t \in {"str", "list"} /\ v.v = <<>>

\* results of normalize_value: an exception, None, or the normalized text
NormRaised == [raised |-> TRUE, none |-> TRUE, value |-> <<>>]
NormNone == [raised |-> FALSE, none |-> TRUE, value |-> <<>>]
NormText(s) == [raised |-> FALSE, none |-> FALSE, value |-> s]

\* the text did not match the value format (lines 151-156): the numeric part
\* of it is returned when there is one
UnparsedResult(u) ==
    IF NumericPart(u) # <<>> THEN NormText(NumericPart(u)) ELSE NormNone

\* normalize_value(v)
normalize_value(v) ==
    IF Falsy(v) THEN NormNone
    ELSE IF v.t # "str" THEN NormRaised             \* v.lower() on a non-str
    ELSE IF Lower(v.v) \in UnknownWords THEN NormNone
    ELSE LET u == ApplyConversions(Upper(Strip(v.v)), 1)
         IN  IF MatchesValueFormat(u) THEN NormText(Lower(u))
             ELSE UnparsedResult(u)

(***************************************************************************)
(* Component records (the dicts of parsed_json["components"])              *)
(***************************************************************************)
\* a dict with the four usual keys; a key that is absent keeps a PNone filler
Dict(type, name, nodes, value) ==
    [isDict |-> TRUE, keys |-> {"type", "name", "nodes", "value"},
     type |-> type, name |-> name, nodes |-> nodes, value |-> value,
     model |-> PNone, source_type |-> PNone]
Without(c, key) == [c EXCEPT !.keys = @ \ {key}, ![key] = PNone]
With(c, key, val) == [c EXCEPT !.keys = @ \cup {key}, ![key] = val]

\* a list entry that is not a dict (a str, a number, None)
NotADict ==
    [isDict |-> FALSE, keys |-> {}, type |-> PNone, name |-> PNone,
     nodes |-> PNone, value |-> PNone, model |-> PNone, source_type |-> PNone]

\* component.get(key, default)
Get(c, key, default) == IF key \in c.keys THEN c[key] ELSE default

\* the component records the compilations are fed from
ComponentPool == <<
    \* 1: resistor with a declared name and a parseable value
    Dict(PStr(<<"r", "e", "s", "i", "s", "t", "o", "r">>),
         PStr(<<"R", "1">>),
         PList(<<<<"N", "1">>, <<"N", "2">>>>),
         PStr(<<"1", "0", "k">>)),
    \* 2: capitalised type, name without the prefix, value with letters before the digits
    Dict(PStr(<<"R", "e", "s", "i", "s", "t", "o", "r">>),
         PStr(<<"X", "1">>),
         PList(<<<<"N", "2">>, <<"0">>>>),
         PStr(<<"x", "1", "0">>)),
    \* 3: capacitor with a unit symbol after the suffix
    Dict(PStr(<<"c", "a", "p", "a", "c", "i", "t", "o", "r">>),
         PStr(<<"C", "1">>),
         PList(<<<<"N", "1">>, <<"N", "2">>>>),
         PStr(<<"4", ".", "7", "u", "F">>)),
    \* 4: inductor, name without the prefix, value 'unknown'
    Dict(PStr(<<"i", "n", "d", "u", "c", "t", "o", "r">>),
         PStr(<<"c", "o", "i", "l">>),
         PList(<<<<"N", "1">>, <<"N", "2">>>>),
         PStr(<<"u", "n", "k", "n", "o", "w", "n">>)),
    \* 5: transformer with 4 nodes
    Dict(PStr(<<"t", "r", "a", "n", "s", "f", "o", "r", "m", "e", "r">>),
         PStr(<<"T", "1">>),
         PList(<<<<"N", "1">>, <<"N", "2">>, <<"N", "3">>, <<"N", "4">>>>),
         PStr(<<"1", "m", "H">>)),
    \* 6: transformer with 3 nodes
    Dict(PStr(<<"t", "r", "a", "n", "s", "f", "o", "r", "m", "e", "r">>),
         PStr(<<"T", "2">>),
         PList(<<<<"N", "1">>, <<"N", "2">>, <<"N", "3">>>>),
         PStr(<<"1", "m", "H">>)),
    \* 7: ground
    Without(Dict(PStr(<<"g", "r", "o", "u", "n", "d">>),
         PStr(<<"G", "N", "D">>),
         PList(<<<<"0">>>>),
         PNone), "value"),
    \* 8: type without a compilation rule
    Dict(PStr(<<"u", "n", "k", "n", "o", "w", "n">>),
         PStr(<<"U", "1">>),
         PList(<<<<"N", "1">>, <<"N", "2">>>>),
         PStr(<<"1", "k">>)),
    \* 9: logic gate
    Without(Dict(PStr(<<"a", "n", "d">>),
         PStr(<<"G", "1">>),
         PList(<<<<"N", "1">>, <<"N", "2">>>>),
         PNone), "value"),
    \* 10: logic gate with one node
    Without(Dict(PStr(<<"n", "a", "n", "d">>),
         PStr(<<"G", "2">>),
         PList(<<<<"N", "1">>>>),
         PNone), "value"),
    \* 11: switch
    Without(Dict(PStr(<<"s", "w", "i", "t", "c", "h">>),
         PStr(<<"S", "1">>),
         PList(<<<<"N", "1">>, <<"N", "2">>>>),
         PNone), "value"),
    \* 12: diode without a value
    Without(Dict(PStr(<<"d", "i", "o", "d", "e">>),
         PStr(<<"D", "1">>),
         PList(<<<<"N", "1">>, <<"N", "2">>>>),
         PNone), "value"),
    \* 13: BJT with 3 nodes and an empty value
    Dict(PStr(<<"b", "j", "t">>),
         PStr(<<"Q", "1">>),
         PList(<<<<"N", "1">>, <<"N", "2">>, <<"N", "3">>>>),
         PStr(<<>>)),
    \* 14: MOSFET with 4 nodes and an explicit model
    With(Without(Dict(PStr(<<"m", "o", "s", "f", "e", "t">>),
         PStr(<<"M", "1">>),
         PList(<<<<"N", "1">>, <<"N", "2">>, <<"N", "3">>, <<"N", "4">>>>),
         PNone), "value"), "model", PStr(<<"I", "R", "F", "5", "4", "0">>)),
    \* 15: an entry that is not a dict
    NotADict,
    \* 16: resistor without a name field
    Without(Dict(PStr(<<"r", "e", "s", "i", "s", "t", "o", "r">>),
         PNone,
         PList(<<<<"N", "1">>, <<"N", "2">>>>),
         PStr(<<"1", "k">>)), "name"),
    \* 17: resistor with one node
    Dict(PStr(<<"r", "e", "s", "i", "s", "t", "o", "r">>),
         PStr(<<"R", "9">>),
         PList(<<<<"N", "1">>>>),
         PStr(<<"1", "k">>)),
    \* 18: resistor with a number as value
    Dict(PStr(<<"r", "e", "s", "i", "s", "t", "o", "r">>),
         PStr(<<"R", "3">>),
         PList(<<<<"N", "1">>, <<"N", "2">>>>),
         PInt(10)),
    \* 19: battery as AC voltage source
    With(Dict(PStr(<<"b", "a", "t", "t", "e", "r", "y">>),
         PStr(<<"V", "1">>),
         PList(<<<<"N", "1">>, <<"0">>>>),
         PStr(<<"9", "V">>)), "source_type", PStr(<<"a", "c">>)),
    \* 20: type that is not a string
    Without(Dict(PInt(7),
         PStr(<<"X">>),
         PList(<<>>),
         PNone), "value"),
    \* 21: current source
    Dict(PStr(<<"c", "u", "r", "r", "e", "n", "t">>),
         PStr(<<"I", "1">>),
         PList(<<<<"N", "1">>, <<"N", "2">>>>),
         PStr(<<"2", "m", "A">>)),
    \* 22: resistor whose name is None
    Dict(PStr(<<"r", "e", "s", "i", "s", "t", "o", "r">>),
         PNone,
         PList(<<<<"N", "1">>, <<"N", "2">>>>),
         PStr(<<"1", "k">>)),
    \* 23: the voltage source of VisionProcessor._create_fallback_result, canonical label
    Dict(PStr(<<"v", "o", "l", "t", "a", "g", "e", "_", "s", "o", "u", "r", "c", "e">>),
         PStr(<<"V", "1">>),
         PList(<<<<"N", "1">>, <<"0">>>>),
         PStr(<<"5", "V">>)),
    \* 24: current source with the canonical label
    Dict(PStr(<<"c", "u", "r", "r", "e", "n", "t", "_", "s", "o", "u", "r", "c", "e">>),
         PStr(<<"I", "2">>),
         PList(<<<<"N", "1">>, <<"0">>>>),
         PStr(<<"2", "m", "A">>))
>>

(***************************************************************************)
(* validate_component                                                      *)
(***************************************************************************)
Invalid(msg) == [raised |-> FALSE, ok |-> FALSE, msg |-> msg]
Valid == [raised |-> FALSE, ok |-> TRUE, msg |-> ""]
ValidateRaised == [raised |-> TRUE, ok |-> FALSE, msg |-> "AttributeError"]

\* the node count check (lines 183-192); "" when the count is accepted
NodeCountError(spice_type, n) ==
    IF spice_type \in {"R", "C", "L", "V", "I", "D"}
    THEN IF n # 2 THEN "requires exactly 2 nodes" ELSE ""
    ELSE IF spice_type = "Q"
    THEN IF n \notin {3, 4} THEN "Transistor requires 3 or 4 nodes" ELSE ""
    ELSE IF spice_type = "M"
    THEN IF n \notin {3, 4} THEN "MOSFET requires 3 or 4 nodes" ELSE ""
    ELSE ""

\* a validation that lets an unknown type through
UnsupportedTypeAccepted == Valid

\* the result for a type COMPONENT_MAPPING does not know (lines 180-181)
UnsupportedType == Invalid("Unsupported component type")

validate_component(component) ==
    IF ~component.isDict THEN Invalid("Component must be a dictionary")
    ELSE IF "type" \notin component.keys THEN Invalid("Component missing 'type' field")
    ELSE IF "name" \notin component.keys THEN Invalid("Component missing 'name' field")
    ELSE IF "nodes" \notin component.keys \/ component.nodes.t # "list"
         THEN Invalid("Component missing or invalid 'nodes' field")
    ELSE IF component.type.t # "str" THEN ValidateRaised   \* component['type'].lower()
    ELSE LET spice_type == MappingGet(Lower(component.type.v))
             count_error == NodeCountError(spice_type, Len(component.nodes.v))
         IN  IF spice_type = None THEN UnsupportedType
             ELSE IF count_error # "" THEN Invalid(count_error)
             ELSE Valid

(***************************************************************************)
(* get_component_spice_line                                                *)
(***************************************************************************)
LineRaised(exc) == [raised |-> TRUE, none |-> TRUE, text |-> <<>>, exc |-> exc]
LineNone == [raised |-> FALSE, none |-> TRUE, text |-> <<>>, exc |-> ""]
Line(text) == [raised |-> FALSE, none |-> FALSE, text |-> text, exc |-> ""]

\* f"{x}" for a Python value that is a str, an int or None
Format(v) ==
    IF v.t = "str" THEN v.v
    ELSE IF v.t = "int" THEN IntToStr(v.v)
    ELSE <<"N", "o", "n", "e">>

\* name if name.startswith(P) else P + str(counters.get(P, 1))
StatementName(name, prefix, counters) ==
    IF StartsWith(name.v, <<prefix>>) THEN name.v
    ELSE <<prefix>> \o IntToStr(counters[prefix])

\* the value written for a component whose value did not normalize (lines 229-230)
SubstituteDefault(spice_type) == DefaultValue(spice_type)

\* a transformer whose coupling statement names the first inductor twice
TransformerLinesSelfCoupled(nodes, normalized_value, counters) ==
    LET l1_name == <<"L">> \o IntToStr(counters["L"])
        l2_name == <<"L">> \o IntToStr(counters["L"] + 1)
        k_name == <<"K">> \o IntToStr(counters["K"])
    IN  Words(<<l1_name, nodes[1], nodes[2], normalized_value>>) \o <<"\n">>
        \o Words(<<l2_name, nodes[3], nodes[4], normalized_value>>) \o <<"\n">>
        \o Words(<<k_name, l1_name, l1_name, <<"0", ".", "9", "9">>>>)

\* the three statements of a transformer (lines 279-282)
TransformerLines(nodes, normalized_value, counters) ==
    LET l1_name == <<"L">> \o IntToStr(counters["L"])
        l2_name == <<"L">> \o IntToStr(counters["L"] + 1)
        k_name == <<"K">> \o IntToStr(counters["K"])
    IN  Words(<<l1_name, nodes[1], nodes[2], normalized_value>>) \o <<"\n">>
        \o Words(<<l2_name, nodes[3], nodes[4], normalized_value>>) \o <<"\n">>
        \o Words(<<k_name, l1_name, l2_name, <<"0", ".", "9", "9">>>>)

\* a ground that is written as a statement of its own
GroundLineWritten == Line(<<"G", "N", "D", " ", "0">>)

\* ground does not generate a line (lines 212-215)
GroundLine == LineNone

get_component_spice_line(component, counters) ==
    LET type == Get(component, "type", PStr(<<>>))
        name == Get(component, "name", PStr(<<>>))
        nodesv == Get(component, "nodes", PList(<<>>))
        value == Get(component, "value", PStr(<<>>))
    IN
    IF type.t # "str" THEN LineRaised("AttributeError")
    ELSE
    LET spice_type == MappingGet(Lower(type.v))
        nodes == nodesv.v
    IN
    IF spice_type = None THEN LineNone
    ELSE IF spice_type = "GND" THEN GroundLine
    ELSE IF spice_type \in {"LOGIC", "OP", "ST", "IC"} THEN
        IF Len(nodes) < 2 THEN LineRaised("IndexError")
        ELSE Line(Words(<<<<"E">> \o IntToStr(counters["E"]),
                          nodes[1], <<"0">>, nodes[2], <<"0">>, <<"1">>>>))
    ELSE IF spice_type \in {"PROBE", "TERM", "CROSS", "SW", "OC"} THEN
        IF Len(nodes) < 2 THEN LineRaised("IndexError")
        ELSE Line(Words(<<<<"R">> \o IntToStr(counters["R"]),
                          nodes[1], nodes[2], <<"1", "m">>>>))
    ELSE
    LET norm == normalize_value(value)
        normalized_value == IF norm.none THEN SubstituteDefault(spice_type)
                            ELSE norm.value
    IN
    IF norm.raised THEN LineRaised("AttributeError")
    ELSE IF spice_type \in {"R", "C", "L"} THEN
        IF name.t # "str" THEN LineRaised("AttributeError")
        ELSE IF Len(nodes) < 2 THEN LineRaised("IndexError")
        ELSE Line(Words(<<StatementName(name, spice_type, counters),
                          nodes[1], nodes[2], normalized_value>>))
    ELSE IF spice_type = "V" THEN
        LET source_type == Get(component, "source_type", PStr(<<"D", "C">>))
        IN  IF source_type.t # "str" \/ name.t # "str"
            THEN LineRaised("AttributeError")
            ELSE IF Len(nodes) < 2 THEN LineRaised("IndexError")
            ELSE IF Upper(source_type.v) = <<"A", "C">>
            THEN Line(Words(<<StatementName(name, "V", counters),
                              nodes[1], nodes[2], <<"A", "C">>,
                              normalized_value, <<"0">>>>))
            ELSE Line(Words(<<StatementName(name, "V", counters),
                              nodes[1], nodes[2], <<"D", "C">>,
                              normalized_value>>))
    ELSE IF spice_type = "I" THEN
        IF name.t # "str" THEN LineRaised("AttributeError")
        ELSE IF Len(nodes) < 2 THEN LineRaised("IndexError")
        ELSE Line(Words(<<StatementName(name, "I", counters),
                          nodes[1], nodes[2], <<"D", "C">>, normalized_value>>))
    ELSE IF spice_type = "D" THEN
        LET model == Format(Get(component, "model", PStr(normalized_value)))
        IN  IF name.t # "str" THEN LineRaised("AttributeError")
            ELSE IF Len(nodes) < 2 THEN LineRaised("IndexError")
            ELSE Line(Words(<<StatementName(name, "D", counters),
                              nodes[1], nodes[2], model>>))
    ELSE IF spice_type \in {"Q", "M"} THEN
        IF Len(nodes) >= 3 THEN
            LET model == Format(Get(component, "model", PStr(normalized_value)))
                line == Words(<<StatementName(name, spice_type, counters),
                                nodes[1], nodes[2], nodes[3], model>>)
            IN  IF name.t # "str" THEN LineRaised("AttributeError")
                ELSE IF Len(nodes) >= 4 THEN Line(line \o <<" ">> \o nodes[4])
                ELSE Line(line)
        ELSE LineNone
    ELSE IF spice_type = "T" THEN
        IF Len(nodes) >= 4
        THEN Line(TransformerLines(nodes, normalized_value, counters))
        ELSE LineNone
    ELSE LineNone

(***************************************************************************)
(* json_to_netlist                                                         *)
(***************************************************************************)
CounterKeys == {"R", "C", "L", "V", "I", "D", "Q", "M", "E", "K"}

\* a compilation that goes on with the counters the previous one left
CarriedCounters == component_counters

\* component_counters as a compilation starts (lines 300-303)
InitialCounters == [p \in CounterKeys |-> 1]

\* the netlist returned for an empty component list (line 295)
EmptyNetlist == <<".", "t", "i", "t", "l", "e", " ", "E", "m", "p", "t", "y", " ", "C", "i", "r", "c", "u", "i", "t", "\n", ".", "e", "n", "d">>

\* lines as a compilation starts (line 297)
InitialLines == <<<<".", "t", "i", "t", "l", "e", " ", "C", "i", "r", "c", "u", "i", "t", "S", "i", "m", "-", "A", "I", " ", "G", "e", "n", "e", "r", "a", "t", "e", "d">>, <<>>>>

\* the model definitions and the analysis command (lines 338-347)
ClosingLines == <<
    <<>>,
    <<"*", " ", "C", "o", "m", "p", "o", "n", "e", "n", "t", " ", "M", "o", "d", "e", "l", "s">>,
    <<".", "m", "o", "d", "e", "l", " ", "D", "G", "E", "N", "E", "R", "I", "C", " ", "D", "(", "I", "S", "=", "1", "e", "-", "1", "2", " ", "N", "=", "1", ".", "4", ")">>,
    <<".", "m", "o", "d", "e", "l", " ", "Q", "G", "E", "N", "E", "R", "I", "C", " ", "N", "P", "N", "(", "B", "F", "=", "1", "0", "0", " ", "I", "S", "=", "1", "e", "-", "1", "4", ")">>,
    <<".", "m", "o", "d", "e", "l", " ", "M", "G", "E", "N", "E", "R", "I", "C", " ", "N", "M", "O", "S", "(", "V", "T", "O", "=", "1", " ", "K", "P", "=", "1", "e", "-", "3", ")">>,
    <<>>,
    <<".", "o", "p">>,
    <<".", "e", "n", "d">>>>

\* a compilation that puts each new statement in front of the earlier ones
PrependLines(ls, spice_line) ==
    IF Contains(spice_line, <<"\n">>)
    THEN <<ls[1], ls[2]>> \o Split(spice_line, "\n") \o SubSeq(ls, 3, Len(ls))
    ELSE <<ls[1], ls[2], spice_line>> \o SubSeq(ls, 3, Len(ls))

\* lines 321-325
AppendLines(ls, spice_line) ==
    IF Contains(spice_line, <<"\n">>) THEN ls \o Split(spice_line, "\n")
    ELSE Append(ls, spice_line)

\* lines 328-330
UpdateCounters(counters, component) ==
    LET comp_type == MappingGet(Lower(Get(component, "type", PStr(<<>>)).v))
    IN  IF comp_type \in CounterKeys
        THEN [counters EXCEPT ![comp_type] = @ + 1]
        ELSE counters

\* an entry of the errors list: "Component {i+1}: ..."
ErrorEntry(index, msg) == [index |-> index, msg |-> msg]

\* the except clause (lines 332-335) evaluates component.get('name', 'unnamed')
HandlerRaises(component) == ~component.isDict

(***************************************************************************)
(* validate_netlist_string                                                 *)
(***************************************************************************)
IsComponentLine(line) ==
    line # <<>> /\ ~StartsWith(line, <<".">>) /\ ~StartsWith(line, <<"*">>)

\* the ground reference check (lines 385-387)
LacksGround(netlist) ==
    LET netlist_text == Lower(netlist)
    IN  ~Contains(netlist_text, <<"0">>) /\ ~Contains(netlist_text, <<"g", "n", "d">>)

validate_netlist_string(netlist) ==
    LET ls == Split(Strip(netlist), "\n")
        has_title == \E n \in 1..Len(ls) : StartsWith(ls[n], <<".", "t", "i", "t", "l", "e">>)
        has_end == \E n \in 1..Len(ls) : StartsWith(ls[n], <<".", "e", "n", "d">>)
        component_lines == SelectSeq(ls, IsComponentLine)
        reasons ==
            (IF ~has_title THEN <<"Missing .title statement">> ELSE <<>>)
            \o (IF ~has_end THEN <<"Missing .end statement">> ELSE <<>>)
            \o (IF component_lines = <<>>
                THEN <<"No components found in netlist">> ELSE <<>>)
            \o (IF LacksGround(netlist)
                THEN <<"No ground reference (node 0) found">> ELSE <<>>)
    IN  [valid |-> reasons = <<>>, reasons |-> reasons]

(***************************************************************************)
(* The compilation as a state machine: one call of json_to_netlist after   *)
(* the other on the same component list, each followed by the validator    *)
(***************************************************************************)
NotValidated == [valid |-> FALSE, reasons |-> <<"not validated">>]

InitNetlist ==
    /\ \E idx \in SeqsUpTo(1..Len(ComponentPool), MaxComps) :
            components = [n \in 1..Len(idx) |-> ComponentPool[idx[n]]]
    /\ npc = "call"
    /\ ni = 0
    /\ lines = <<>>
    /\ errors = <<>>
    /\ warnings = <<>>
    /\ component_counters = [p \in CounterKeys |-> 1]
    /\ netlist_str = <<>>
    /\ validation = NotValidated
    /\ results = <<>>
    /\ FusionIdle
    /\ DetectIdle
    /\ ConcIdle
    /\ AssembleIdle
    /\ NormalizeIdle

\* lines 291-303
Begin ==
    /\ npc = "call"
    /\ IF components = <<>>
       THEN /\ netlist_str' = EmptyNetlist
            /\ results' = Append(results, EmptyNetlist)
            /\ npc' = "returned"
            /\ UNCHANGED <<ni, lines, errors, warnings, component_counters>>
       ELSE /\ lines' = InitialLines
            /\ errors' = <<>>
            /\ warnings' = <<>>
            /\ component_counters' = InitialCounters
            /\ ni' = 1
            /\ npc' = "loop"
            /\ UNCHANGED <<netlist_str, results>>
    /\ UNCHANGED <<components, validation>>
    /\ UNCHANGED fusionVars
    /\ UNCHANGED detectVars
    /\ UNCHANGED <<concVars, assembleVars, normalizeVars>>

\* one pass of the loop body (lines 306-335), component number ni
ProcessComponent ==
    /\ npc = "loop"
    /\ ni <= Len(components)
    /\ LET component == components[ni]
           checked == validate_component(component)
           spice_line == get_component_spice_line(component, component_counters)
       IN  IF checked.raised \/ (checked.ok /\ spice_line.raised)
           THEN \* except Exception as e
                IF HandlerRaises(component)
                THEN /\ npc' = "raised"
                     /\ UNCHANGED <<ni, lines, errors, component_counters>>
                ELSE /\ errors' = Append(errors, ErrorEntry(ni,
                                    IF checked.raised THEN checked.msg
                                    ELSE spice_line.exc))
                     /\ ni' = ni + 1
                     /\ UNCHANGED <<npc, lines, component_counters>>
           ELSE IF ~checked.ok
           THEN /\ errors' = Append(errors, ErrorEntry(ni, checked.msg))
                /\ ni' = ni + 1
                /\ UNCHANGED <<npc, lines, component_counters>>
           ELSE IF spice_line.none
           THEN /\ ni' = ni + 1
                /\ UNCHANGED <<npc, lines, errors, component_counters>>
           ELSE /\ lines' = AppendLines(lines, spice_line.text)
                /\ component_counters' = UpdateCounters(component_counters, component)
                /\ ni' = ni + 1
                /\ UNCHANGED <<npc, errors>>
    /\ UNCHANGED <<components, warnings, netlist_str, validation, results>>
    /\ UNCHANGED fusionVars
    /\ UNCHANGED detectVars
    /\ UNCHANGED <<concVars, assembleVars, normalizeVars>>

\* lines 337-360
Finish ==
    /\ npc = "loop"
    /\ ni > Len(components)
    /\ lines' = lines \o ClosingLines
    /\ netlist_str' = Join(lines', <<"\n">>)
    /\ results' = Append(results, netlist_str')
    /\ npc' = "returned"
    /\ UNCHANGED <<components, ni, errors, warnings, component_counters, validation>>
    /\ UNCHANGED fusionVars
    /\ UNCHANGED detectVars
    /\ UNCHANGED <<concVars, assembleVars, normalizeVars>>

\* the caller hands the returned text to validate_netlist_string
Validate ==
    /\ npc = "returned"
    /\ validation' = validate_netlist_string(netlist_str)
    /\ npc' = "validated"
    /\ UNCHANGED <<components, ni, lines, errors, warnings, component_counters,
                   netlist_str, results>>
    /\ UNCHANGED fusionVars
    /\ UNCHANGED detectVars
    /\ UNCHANGED <<concVars, assembleVars, normalizeVars>>

\* the same component list is compiled once more
CompileAgain ==
    /\ npc = "validated"
    /\ Len(results) < MaxCalls
    /\ npc' = "call"
    /\ UNCHANGED <<components, ni, lines, errors, warnings, component_counters,
                   netlist_str, validation, results>>
    /\ UNCHANGED fusionVars
    /\ UNCHANGED detectVars
    /\ UNCHANGED <<concVars, assembleVars, normalizeVars>>

NextNetlist ==
    \/ Begin
    \/ ProcessComponent
    \/ Finish
    \/ Validate
    \/ CompileAgain

SpecNetlist == InitNetlist /\ [][NextNetlist]_vars

(***************************************************************************)
(* Two calls of json_to_netlist whose steps interleave                     *)
(***************************************************************************)
\* the two requests
Calls == {1, 2}

\* the records the concurrent calls are fed from: an inductor whose name is
\* synthesized from the L counter, a transformer, which reads the L and K
\* counters, and a resistor without a name, which adds an error entry
ConcurrentPool == <<ComponentPool[4], ComponentPool[5], ComponentPool[16]>>

\* the module-level dicts every call reads
SharedTables ==
    [COMPONENT_MAPPING |-> COMPONENT_MAPPING, DEFAULT_VALUES |-> DEFAULT_VALUES]

\* the locals of json_to_netlist between two passes of its loop
Locals(ls, errs, counters, failed) ==
    [lines |-> ls, errors |-> errs, component_counters |-> counters,
     raised |-> failed]

\* the loop body (lines 306-335) as a function of the locals
LoopBody(st, component, index) ==
    LET checked == validate_component(component)
        spice_line == get_component_spice_line(component, st.component_counters)
    IN  IF checked.raised \/ (checked.ok /\ spice_line.raised)
        THEN IF HandlerRaises(component)
             THEN [st EXCEPT !.raised = TRUE]
             ELSE [st EXCEPT !.errors = Append(@, ErrorEntry(index,
                                IF checked.raised THEN checked.msg
                                ELSE spice_line.exc))]
        ELSE IF ~checked.ok
        THEN [st EXCEPT !.errors = Append(@, ErrorEntry(index, checked.msg))]
        ELSE IF spice_line.none THEN st
        ELSE [st EXCEPT !.lines = AppendLines(@, spice_line.text),
                        !.component_counters = UpdateCounters(@, component)]

RECURSIVE LoopFrom(_, _, _)
LoopFrom(st, cs, k) ==
    IF k > Len(cs) \/ st.raised THEN st
    ELSE LoopFrom(LoopBody(st, cs[k], k), cs, k + 1)

\* what one call returns when nothing else runs: the text and the errors
Returned(text, errs, failed) == [text |-> text, errors |-> errs, raised |-> failed]

json_to_netlist(cs) ==
    IF cs = <<>> THEN Returned(EmptyNetlist, <<>>, FALSE)
    ELSE LET st == LoopFrom(Locals(InitialLines, <<>>, InitialCounters, FALSE),
                            cs, 1)
         IN  IF st.raised THEN Returned(<<>>, st.errors, TRUE)
             ELSE Returned(Join(st.lines \o ClosingLines, <<"\n">>),
                           st.errors, FALSE)

\* calls that all count in the counters of the first call
CountersOfFirstCall(p) == calls[1].component_counters

\* component_counters is a local of the call (lines 300-303)
CountersOf(p) == calls[p].component_counters

NewCall(cs) ==
    [components |-> cs, pc |-> "call", i |-> 0, lines |-> <<>>,
     errors |-> <<>>, component_counters |-> [q \in CounterKeys |-> 1],
     text |-> <<>>, validation |-> NotValidated]

InitConcurrent ==
    /\ \E idx \in [Calls -> SeqsUpTo(1..Len(ConcurrentPool), MaxComps)] :
         calls = [p \in Calls |->
                    NewCall([n \in 1..Len(idx[p]) |-> ConcurrentPool[idx[p][n]]])]
    /\ tables = SharedTables
    /\ FusionIdle
    /\ NetlistIdle
    /\ DetectIdle
    /\ AssembleIdle
    /\ NormalizeIdle

\* lines 291-303 in call p
ConcBegin(p) ==
    /\ calls[p].pc = "call"
    /\ calls' = [calls EXCEPT ![p] =
                    IF @.components = <<>>
                    THEN [@ EXCEPT !.text = EmptyNetlist, !.pc = "returned"]
                    ELSE [@ EXCEPT !.lines = InitialLines,
                                   !.errors = <<>>,
                                   !.component_counters = InitialCounters,
                                   !.i = 1,
                                   !.pc = "loop"]]
    /\ UNCHANGED tables
    /\ UNCHANGED <<fusionVars, netlistVars, detectVars, assembleVars, normalizeVars>>

\* one pass of the loop body in call p
ConcProcess(p) ==
    /\ calls[p].pc = "loop"
    /\ calls[p].i <= Len(calls[p].components)
    /\ LET st == LoopBody(Locals(calls[p].lines, calls[p].errors,
                                 CountersOf(p), FALSE),
                          calls[p].components[calls[p].i], calls[p].i)
       IN  calls' = [calls EXCEPT ![p] =
                        IF st.raised THEN [@ EXCEPT !.pc = "raised"]
                        ELSE [@ EXCEPT !.lines = st.lines,
                                       !.errors = st.errors,
                                       !.component_counters = st.component_counters,
                                       !.i = @ + 1]]
    /\ UNCHANGED tables
    /\ UNCHANGED <<fusionVars, netlistVars, detectVars, assembleVars, normalizeVars>>

\* lines 337-360 in call p
ConcFinish(p) ==
    /\ calls[p].pc = "loop"
    /\ calls[p].i > Len(calls[p].components)
    /\ calls' = [calls EXCEPT ![p] =
                    [@ EXCEPT !.lines = @ \o ClosingLines,
                              !.text = Join(calls[p].lines \o ClosingLines, <<"\n">>),
                              !.pc = "returned"]]
    /\ UNCHANGED tables
    /\ UNCHANGED <<fusionVars, netlistVars, detectVars, assembleVars, normalizeVars>>

\* validate_netlist_string on the text call p returned
ConcValidate(p) ==
    /\ calls[p].pc = "returned"
    /\ calls' = [calls EXCEPT ![p] =
                    [@ EXCEPT !.validation = validate_netlist_string(calls[p].text),
                              !.pc = "validated"]]
    /\ UNCHANGED tables
    /\ UNCHANGED <<fusionVars, netlistVars, detectVars, assembleVars, normalizeVars>>

NextConcurrent ==
    \E p \in Calls :
        \/ ConcBegin(p)
        \/ ConcProcess(p)
        \/ ConcFinish(p)
        \/ ConcValidate(p)

SpecConcurrent == InitConcurrent /\ [][NextConcurrent]_vars

(***************************************************************************)
(* Both stages together                                                    *)
(***************************************************************************)
(***************************************************************************)
(* image_parser.py: the detector's result assembled into circuit           *)
(* components (_convert_integrated_format)                                 *)
(***************************************************************************)
\* the type strings the detector result may carry: keys of the assembler's
\* tables and one type outside them
DetectedTypes == {
    <<"r", "e", "s", "i", "s", "t", "o", "r">>,
    <<"c", "a", "p", "a", "c", "i", "t", "o", "r", "-", "u", "n", "p", "o", "l", "a", "r", "i", "z", "e", "d">>,
    <<"d", "i", "o", "d", "e">>,
    <<"t", "r", "a", "n", "s", "i", "s", "t", "o", "r">>,
    <<"g", "n", "d">>,
    <<"v", "o", "l", "t", "a", "g", "e", "-", "d", "c">>,
    <<"i", "n", "t", "e", "g", "r", "a", "t", "e", "d", "_", "c", "i", "r", "c", "u", "i", "t">>,
    <<"c", "o", "n", "n", "e", "c", "t", "o", "r">>
}

\* type_mapping of _map_component_type
type_mapping == <<
    <<<<"r", "e", "s", "i", "s", "t", "o", "r">>, <<"R", "e", "s", "i", "s", "t", "o", "r">>>>,
    <<<<"c", "a", "p", "a", "c", "i", "t", "o", "r", "-", "p", "o", "l", "a", "r", "i", "z", "e", "d">>, <<"C", "a", "p", "a", "c", "i", "t", "o", "r">>>>,
    <<<<"c", "a", "p", "a", "c", "i", "t", "o", "r", "-", "u", "n", "p", "o", "l", "a", "r", "i", "z", "e", "d">>, <<"C", "a", "p", "a", "c", "i", "t", "o", "r">>>>,
    <<<<"i", "n", "d", "u", "c", "t", "o", "r">>, <<"I", "n", "d", "u", "c", "t", "o", "r">>>>,
    <<<<"d", "i", "o", "d", "e">>, <<"D", "i", "o", "d", "e">>>>,
    <<<<"l", "e", "d">>, <<"L", "E", "D">>>>,
    <<<<"t", "r", "a", "n", "s", "i", "s", "t", "o", "r">>, <<"B", "J", "T">>>>,
    <<<<"i", "n", "t", "e", "g", "r", "a", "t", "e", "d", "_", "c", "i", "r", "c", "u", "i", "t">>, <<"I", "C">>>>,
    <<<<"o", "p", "e", "r", "a", "t", "i", "o", "n", "a", "l", "_", "a", "m", "p", "l", "i", "f", "i", "e", "r">>, <<"O", "p", "A", "m", "p">>>>,
    <<<<"a", "n", "d">>, <<"A", "N", "D">>>>,
    <<<<"o", "r">>, <<"O", "R">>>>,
    <<<<"n", "o", "t">>, <<"N", "O", "T">>>>,
    <<<<"v", "o", "l", "t", "a", "g", "e", "-", "d", "c">>, <<"V", "o", "l", "t", "a", "g", "e", "S", "o", "u", "r", "c", "e">>>>,
    <<<<"g", "n", "d">>, <<"G", "r", "o", "u", "n", "d">>>>,
    <<<<"u", "n", "k", "n", "o", "w", "n", "_", "c", "o", "m", "p", "o", "n", "e", "n", "t">>, <<"U", "n", "k", "n", "o", "w", "n">>>>
>>

\* value_map of _estimate_component_value
value_map == <<
    <<<<"r", "e", "s", "i", "s", "t", "o", "r">>, <<"1", "0", "k">>>>,
    <<<<"c", "a", "p", "a", "c", "i", "t", "o", "r", "-", "p", "o", "l", "a", "r", "i", "z", "e", "d">>, <<"1", "0", "0", "u", "F">>>>,
    <<<<"c", "a", "p", "a", "c", "i", "t", "o", "r", "-", "u", "n", "p", "o", "l", "a", "r", "i", "z", "e", "d">>, <<"1", "0", "0", "n", "F">>>>,
    <<<<"i", "n", "d", "u", "c", "t", "o", "r">>, <<"1", "m", "H">>>>,
    <<<<"d", "i", "o", "d", "e">>, <<"1", "N", "4", "1", "4", "8">>>>,
    <<<<"l", "e", "d">>, <<"2", "V">>>>,
    <<<<"t", "r", "a", "n", "s", "i", "s", "t", "o", "r">>, <<"2", "N", "2", "2", "2", "2">>>>,
    <<<<"v", "o", "l", "t", "a", "g", "e", "-", "d", "c">>, <<"5", "V">>>>,
    <<<<"i", "n", "t", "e", "g", "r", "a", "t", "e", "d", "_", "c", "i", "r", "c", "u", "i", "t">>, <<"I", "C", "1">>>>
>>

\* dict.get(key, default) on a table of pairs
TableGet(table, key, default) ==
    IF \E n \in 1..Len(table) : table[n][1] = key
    THEN table[CHOOSE n \in 1..Len(table) : table[n][1] = key][2]
    ELSE default

map_component_type(component_type) ==
    TableGet(type_mapping, component_type, <<"U", "n", "k", "n", "o", "w", "n">>)

estimate_component_value(component_type) ==
    TableGet(value_map, component_type, <<"1">>)

\* f"N{m}"
NodeName(m) == <<"N">> \o IntToStr(m)

\* the dict built for one detected component when n components are already
\* in the list: two synthesized nodes whatever the type
AssembledComponent(comp, n) ==
    Dict(PStr(map_component_type(comp.type)),
         PStr(IF comp.hasId THEN comp.id ELSE <<"C">> \o IntToStr(n + 1)),
         PList(<<NodeName(n * 2 + 1), NodeName(n * 2 + 2)>>),
         PStr(estimate_component_value(comp.type)))

\* the dict built for connection i (counted from 0), always a wire
WireComponent(i) ==
    Dict(PStr(<<"W", "i", "r", "e">>),
         PStr(<<"W">> \o IntToStr(i + 1)),
         PList(<<NodeName(i * 2 + 1), NodeName(i * 2 + 2)>>),
         PStr(<<"0">>))

\* connections[:5] turned into wire components
WireComponents(connections) ==
    [i \in 1..Min2(connections, WireLimit) |-> WireComponent(i - 1)]

\* a component of the detector's result: its type and its id "comp_<k>"
Detected(type, k, hasId) ==
    [type |-> type, hasId |-> hasId,
     id |-> IF hasId THEN <<"c", "o", "m", "p", "_">> \o IntToStr(k) ELSE <<>>]

InitAssemble ==
    \E types \in SeqsUpTo(DetectedTypes, MaxAssembled) :
      \E hasId \in BOOLEAN : \E connections \in 0..MaxWires :
        /\ integrated_result =
               [components |-> [k \in 1..Len(types) |->
                                   Detected(types[k], k, hasId)],
                connections |-> connections]
        /\ assembled = <<>>
        /\ apc = "call"
        /\ ak = 0
        /\ FusionIdle
        /\ NetlistIdle
        /\ DetectIdle
        /\ ConcIdle
        /\ NormalizeIdle

\* components = []
AssembleStart ==
    /\ apc = "call"
    /\ assembled' = <<>>
    /\ ak' = 1
    /\ apc' = "components"
    /\ UNCHANGED integrated_result
    /\ UNCHANGED <<fusionVars, netlistVars, detectVars, concVars, normalizeVars>>

\* one pass of the loop over integrated_result["components"]
AssembleComponent ==
    /\ apc = "components"
    /\ ak <= Len(integrated_result.components)
    /\ assembled' = Append(assembled,
                           AssembledComponent(integrated_result.components[ak],
                                              Len(assembled)))
    /\ ak' = ak + 1
    /\ UNCHANGED <<apc, integrated_result>>
    /\ UNCHANGED <<fusionVars, netlistVars, detectVars, concVars, normalizeVars>>

\* the loop over the first five connections
AssembleConnections ==
    /\ apc = "components"
    /\ ak > Len(integrated_result.components)
    /\ assembled' = assembled \o WireComponents(integrated_result.connections)
    /\ apc' = "connections"
    /\ UNCHANGED <<ak, integrated_result>>
    /\ UNCHANGED <<fusionVars, netlistVars, detectVars, concVars, normalizeVars>>

\* return {"components": components, ...}
AssembleReturn ==
    /\ apc = "connections"
    /\ apc' = "returned"
    /\ UNCHANGED <<ak, assembled, integrated_result>>
    /\ UNCHANGED <<fusionVars, netlistVars, detectVars, concVars, normalizeVars>>

NextAssemble ==
    \/ AssembleStart
    \/ AssembleComponent
    \/ AssembleConnections
    \/ AssembleReturn

SpecAssemble == InitAssemble /\ [][NextAssemble]_vars

(***************************************************************************)
(* normalize_value called on value strings that differ in suffix and unit  *)
(***************************************************************************)
ValueDigits == {<<"1">>, <<"4", ".", "7">>}
ValueSuffixes == {"p", "n", "u", "m", "k", "M", "G"}
ValueUnits == {<<>>, <<"F">>, <<"H">>, <<"V">>, <<"A">>, <<"ohm_sign">>,
               <<"o", "h", "m">>}

\* the value string: digits, one suffix, a unit symbol or none
ValueText(in) == in.digits \o <<in.suffix>> \o in.unit

InitNormalize ==
    \E digits \in ValueDigits :
      \E s1 \in ValueSuffixes, s2 \in ValueSuffixes :
        \E u1 \in ValueUnits, u2 \in ValueUnits :
          /\ inputs = <<[digits |-> digits, suffix |-> s1, unit |-> u1],
                        [digits |-> digits, suffix |-> s2, unit |-> u2]>>
          /\ normalized = <<>>
          /\ vpc = "call"
          /\ FusionIdle
          /\ NetlistIdle
          /\ DetectIdle
          /\ ConcIdle
          /\ AssembleIdle

\* normalize_value(v) for the next of the two strings
NormalizeValue ==
    /\ vpc = "call"
    /\ Len(normalized) < Len(inputs)
    /\ normalized' = Append(normalized,
                            normalize_value(PStr(ValueText(inputs[Len(normalized) + 1]))))
    /\ UNCHANGED <<vpc, inputs>>
    /\ UNCHANGED <<fusionVars, netlistVars, detectVars, concVars, assembleVars>>

\* both calls have returned
NormalizeReturn ==
    /\ vpc = "call"
    /\ Len(normalized) = Len(inputs)
    /\ vpc' = "returned"
    /\ UNCHANGED <<inputs, normalized>>
    /\ UNCHANGED <<fusionVars, netlistVars, detectVars, concVars, assembleVars>>

NextNormalize == NormalizeValue \/ NormalizeReturn

SpecNormalize == InitNormalize /\ [][NextNormalize]_vars

Init ==
    \/ InitFusion \/ InitNetlist \/ InitDetect \/ InitConcurrent
    \/ InitAssemble \/ InitNormalize
Next ==
    \/ NextFusion \/ NextNetlist \/ NextDetect \/ NextConcurrent
    \/ NextAssemble \/ NextNormalize
Spec == Init /\ [][Next]_vars

(***************************************************************************)
(* Claims about detection fusion                                           *)
(***************************************************************************)
InCombined(d) == \E p \in 1..Len(combined) : combined[p] = d

\* of two overlapping inputs, the one the fusion rule prefers: the higher
\* confidence, and on a tie the one processed first (position p < q)
Preferred(p, q) ==
    IF all_detections[q].confidence > all_detections[p].confidence
    THEN all_detections[q] ELSE all_detections[p]

\* C1: for any two input detections a, b with IoU(a,b) > 0.5 the returned
\* list holds at most one of them, and if it holds one it is the one with the
\* higher confidence (on a tie, the one processed first).
C1_DedupPairwise ==
    fpc = "returned" =>
        \A p, q \in 1..Len(all_detections) :
            (p < q /\ is_overlap(all_detections[p], all_detections[q])) =>
                /\ ~(InCombined(all_detections[p]) /\ InCombined(all_detections[q]))
                /\ (InCombined(all_detections[p]) \/ InCombined(all_detections[q]))
                        => InCombined(Preferred(p, q))

\* C2: after every step of the fusion loop no two accepted entries have
\* bounding-box IoU above the threshold 0.5.
C2_NoOverlapAccepted ==
    \A i, j \in 1..Len(combined) :
        i < j => ~is_overlap(combined[i], combined[j])

(***************************************************************************)
(* Claims about netlist compilation and validation                         *)
(***************************************************************************)
\* the loop is about to process component number ni
AtComponent == npc = "loop" /\ ni <= Len(components)

\* a dict with type, name and nodes of the right Python types
WellShaped(c) ==
    /\ c.isDict
    /\ {"type", "name", "nodes"} \subseteq c.keys
    /\ c.type.t = "str"
    /\ c.nodes.t = "list"

SpiceTypeOf(c) == MappingGet(Lower(c.type.v))

\* the canonical arity table: 2 for R, C, L, V, I, D; 3 or 4 for Q and M; 4 for
\* a transformer; any count for the types the table does not list
HasCanonicalArity(c) ==
    LET n == Len(c.nodes.v)
        st == SpiceTypeOf(c)
    IN  /\ st \in {"R", "C", "L", "V", "I", "D"} => n = 2
        /\ st \in {"Q", "M"} => n \in {3, 4}
        /\ st = "T" => n = 4

\* structurally valid: a dict with type, name and nodes, of a supported type,
\* with the node count of its type
StructurallyValid(c) ==
    WellShaped(c) /\ SpiceTypeOf(c) # None /\ HasCanonicalArity(c)

\* C3: the netlist of a non-empty list of structurally valid components is
\* accepted by validate_netlist_string: valid = true, no reasons.
C3_RoundTrip ==
    (/\ npc = "validated"
     /\ components # <<>>
     /\ \A n \in 1..Len(components) : StructurallyValid(components[n]))
    => (validation.valid /\ validation.reasons = <<>>)

\* C4: every compilation of the same component list returns the text the
\* first one returned.
C4_Idempotent ==
    \A n \in 1..Len(results) : results[n] = results[1]

\* a second compilation has returned, for a list whose first compilation moved
\* a name counter and recorded an error
C4_Witness ==
    /\ Len(results) >= 2
    /\ npc = "validated"
    /\ errors # <<>>
    /\ \E p \in CounterKeys : component_counters[p] > 1
    /\ \E n \in 1..Len(lines) : StartsWith(lines[n], <<"R", "1", " ">>)

\* the record is invalid, or its processing fails: it raises, or no statement
\* can be generated for it although it is no ground
ProcessingFails(c, counters) ==
    LET checked == validate_component(c)
        spice_line == get_component_spice_line(c, counters)
    IN  \/ checked.raised
        \/ ~checked.ok
        \/ spice_line.raised
        \/ spice_line.none /\ SpiceTypeOf(c) # "GND"

\* C5: json_to_netlist never raises; a record that is invalid or whose
\* processing fails is skipped with one error entry for it, and a valid record
\* is compiled to its statement whatever bad records came before it.
C5_FailSoft ==
    [][AtComponent =>
        LET c == components[ni]
        IN  /\ npc' # "raised"
            /\ ProcessingFails(c, component_counters) =>
                    /\ lines' = lines
                    /\ Len(errors') = Len(errors) + 1
                    /\ errors'[Len(errors')].index = ni
            /\ ~ProcessingFails(c, component_counters) =>
                    /\ errors' = errors
                    /\ (SpiceTypeOf(c) # "GND" => Len(lines') > Len(lines))
      ]_vars

\* the lower-cased type is no key of COMPONENT_MAPPING
HasUnsupportedType(c) ==
    /\ c.isDict
    /\ "type" \in c.keys
    /\ c.type.t = "str"
    /\ SpiceTypeOf(c) = None

\* C6: a component whose type has no compilation rule produces no statement
\* and exactly one error entry, which carries the component's position.
C6_UnsupportedSkipped ==
    [][(AtComponent /\ HasUnsupportedType(components[ni])) =>
            /\ lines' = lines
            /\ Len(errors') = Len(errors) + 1
            /\ SubSeq(errors', 1, Len(errors)) = errors
            /\ errors'[Len(errors')].index = ni
            /\ ni' = ni + 1
      ]_vars

\* a component of an unsupported type has been processed after another
\* component and its error entry is in the list
C6_Witness ==
    /\ npc = "loop"
    /\ ni > 2
    /\ HasUnsupportedType(components[ni - 1])
    /\ errors # <<>>
    /\ errors[Len(errors)].index = ni - 1
    /\ errors[Len(errors)].msg = "Unsupported component type"

\* the types the arity table lists
InArityTable(c) ==
    SpiceTypeOf(c) \in {"R", "C", "L", "V", "I", "D", "Q", "M", "T"}

\* C7: a component of a compilable type whose node count differs from the
\* canonical arity gets exactly one error and no statement; every emitted
\* statement comes from a component with its canonical arity.
C7_ArityChecked ==
    [][(AtComponent /\ WellShaped(components[ni]) /\ InArityTable(components[ni])) =>
            /\ ~HasCanonicalArity(components[ni]) =>
                    /\ lines' = lines
                    /\ Len(errors') = Len(errors) + 1
                    /\ errors'[Len(errors')].index = ni
            /\ lines' # lines => HasCanonicalArity(components[ni])
      ]_vars

\* a well-formed value: digits with at most one decimal point between them,
\* then at most one engineering suffix, then at most one unit symbol
EngineeringSuffixes == {"p", "n", "u", "m", "k", "M", "G"}
UnitSymbols == {<<"F">>, <<"H">>, <<"V">>, <<"A">>, <<"ohm_sign">>,
                <<"o", "h", "m">>, <<"o", "h", "m", "s">>}
IsNumber(s) ==
    /\ s # <<>>
    /\ \A n \in 1..Len(s) : s[n] \in NumberChars
    /\ Cardinality({n \in 1..Len(s) : s[n] = "."}) <= 1
    /\ s[1] # "." /\ s[Len(s)] # "."
WellFormedValue(s) ==
    \E d \in 1..Len(s) :
        /\ IsNumber(SubSeq(s, 1, d))
        /\ LET rest == SubSeq(s, d + 1, Len(s))
               unit == IF rest # <<>> /\ Head(rest) \in EngineeringSuffixes
                       THEN Tail(rest) ELSE rest
           IN  unit = <<>> \/ Lower(unit) \in {Lower(u) : u \in UnitSymbols}

\* the component carries no usable value: none at all, or a string that is
\* no well-formed value
ValueUnparseable(c) ==
    \/ "value" \notin c.keys
    \/ c.value.t = "none"
    \/ c.value.t = "str" /\ ~WellFormedValue(Strip(c.value.v))

\* C8: a component whose value is not a well-formed number with optional
\* suffix and unit is compiled with the DEFAULT_VALUES entry of its type as
\* the value of its statement.
C8_DefaultOnUnparseable ==
    [][(/\ AtComponent
        /\ WellShaped(components[ni])
        /\ SpiceTypeOf(components[ni]) \in DOMAIN DEFAULT_VALUES
        /\ "model" \notin components[ni].keys
        /\ ValueUnparseable(components[ni])
        /\ lines' # lines) =>
            LET ws == Split(lines'[Len(lines')], " ")
            IN  \E n \in 1..Len(ws) : ws[n] = DEFAULT_VALUES[SpiceTypeOf(components[ni])]
      ]_vars

\* a transformer with 4 nodes whose value normalize_value accepts
IsTransformer4(c) ==
    /\ WellShaped(c)
    /\ SpiceTypeOf(c) = "T"
    /\ Len(c.nodes.v) = 4
    /\ ~normalize_value(Get(c, "value", PStr(<<>>))).raised

\* the value a statement of the component carries: the normalized value, or
\* the default of its type
NormalizedValueOf(c) ==
    LET norm == normalize_value(Get(c, "value", PStr(<<>>)))
    IN  IF norm.none THEN DefaultValue(SpiceTypeOf(c)) ELSE norm.value

C10_EmptyCircuit ==
    (npc = "validated" /\ components = <<>>) =>
        LET ls == Split(netlist_str, "\n")
        IN  /\ Len(ls) = 3
            /\ StartsWith(ls[1], <<".", "t", "i", "t", "l", "e">>)
            /\ ls[2] = <<".", "o", "p">>
            /\ ls[3] = <<".", "e", "n", "d">>
            /\ validation.valid

(***************************************************************************)
(* Layout of the returned netlist                                          *)
(***************************************************************************)
\* the lines of the returned text
ReturnedLines == Split(netlist_str, "\n")

IsModelLine(line, model) ==
    StartsWith(line, <<".", "m", "o", "d", "e", "l", " ">> \o model \o <<" ">>)

IsDirective(line) ==
    /\ StartsWith(line, <<".">>)
    /\ ~StartsWith(line, <<".", "m", "o", "d", "e", "l">>)
    /\ ~StartsWith(line, <<".", "t", "i", "t", "l", "e">>)
    /\ line # <<".", "e", "n", "d">>

Positions(ls, P(_)) == {n \in 1..Len(ls) : P(ls[n])}

IsDiodeModel(line) == IsModelLine(line, <<"D", "G", "E", "N", "E", "R", "I", "C">>)
IsBjtModel(line) == IsModelLine(line, <<"Q", "G", "E", "N", "E", "R", "I", "C">>)
IsMosfetModel(line) == IsModelLine(line, <<"M", "G", "E", "N", "E", "R", "I", "C">>)
IsAnyModel(line) == StartsWith(line, <<".", "m", "o", "d", "e", "l">>)
IsTitle(line) == StartsWith(line, <<".", "t", "i", "t", "l", "e">>)
IsEnd(line) == line = <<".", "e", "n", "d">>
IsOp(line) == line = <<".", "o", "p">>

\* title, statements, the three models, .op, .end, in this order
LaidOut(ls) ==
    LET models == Positions(ls, IsAnyModel)
        ops == Positions(ls, IsOp)
        statements == Positions(ls, IsComponentLine)
    IN  /\ Len(ls) >= 2
        /\ Positions(ls, IsTitle) = {1}
        /\ Positions(ls, IsEnd) = {Len(ls)}
        /\ Positions(ls, IsDirective) = ops
        /\ Cardinality(ops) = 1
        /\ Cardinality(models) = 3
        /\ Cardinality(Positions(ls, IsDiodeModel)) = 1
        /\ Cardinality(Positions(ls, IsBjtModel)) = 1
        /\ Cardinality(Positions(ls, IsMosfetModel)) = 1
        /\ \A n \in statements : \A m \in models : n < m
        /\ \A m \in models : \A o \in ops : m < o

\* a step of the loop leaves the lines written so far in place and adds, after
\* them, nothing but the statement of the component it processed
StatementAppended ==
    npc = "loop" =>
        /\ Len(lines') >= Len(lines)
        /\ SubSeq(lines', 1, Len(lines)) = lines
        /\ (npc' = "loop" /\ Len(lines') > Len(lines)) =>
              LET spice_line == get_component_spice_line(components[ni],
                                                         component_counters)
              IN  /\ ~spice_line.none
                  /\ Join(SubSeq(lines', Len(lines) + 1, Len(lines')), <<"\n">>)
                        = spice_line.text

\* C11: the netlist returned for a non-empty component list has a .title line
\* first, then the component statements in the order of the components that
\* produced them, then the diode, BJT and MOSFET .model lines once each, then
\* exactly one analysis directive (.op), and .end as its last line.
C11_NetlistLayout ==
    /\ []((npc = "returned" /\ components # <<>>) => LaidOut(ReturnedLines))
    /\ [][StatementAppended]_vars

\* a netlist with the statements of two components, none of which names a model
C11_Witness ==
    /\ npc = "returned"
    /\ Len(components) = 2
    /\ Cardinality(Positions(ReturnedLines, IsComponentLine)) = 2
    /\ \A n \in Positions(ReturnedLines, IsComponentLine) :
          ~Contains(ReturnedLines[n], <<"G", "E", "N", "E", "R", "I", "C">>)

(***************************************************************************)
(* Form of a component statement                                           *)
(***************************************************************************)
\* the types of lines 234-274, with the node count of the arity table
HasStatementForm(c) ==
    /\ WellShaped(c)
    /\ SpiceTypeOf(c) \in {"R", "C", "L", "V", "I", "D", "Q", "M"}
    /\ HasCanonicalArity(c)

\* name, then all the nodes of the component, then at least one more token
NodesThenValue(statement, nodes) ==
    LET words == Split(statement, " ")
    IN  /\ Len(words) > Len(nodes) + 1
        /\ SubSeq(words, 2, Len(nodes) + 1) = nodes

\* C12: the statement emitted for a component is its name, then all of its
\* node identifiers, then the value or model reference; no node identifier
\* comes after the value or model token, 4-node BJT and MOSFET included.
C12_NodesBeforeValue ==
    [][(/\ AtComponent
        /\ HasStatementForm(components[ni])
        /\ Len(lines') = Len(lines) + 1)
       => NodesThenValue(lines'[Len(lines')], components[ni].nodes.v)]_vars

(***************************************************************************)
(* The canonical type labels                                               *)
(***************************************************************************)
\* the prefix table of the specification: canonical label, statement prefix
CanonicalPrefixes == <<
    <<<<"r", "e", "s", "i", "s", "t", "o", "r">>, "R">>,
    <<<<"c", "a", "p", "a", "c", "i", "t", "o", "r">>, "C">>,
    <<<<"i", "n", "d", "u", "c", "t", "o", "r">>, "L">>,
    <<<<"v", "o", "l", "t", "a", "g", "e", "_", "s", "o", "u", "r", "c", "e">>, "V">>,
    <<<<"c", "u", "r", "r", "e", "n", "t", "_", "s", "o", "u", "r", "c", "e">>, "I">>,
    <<<<"d", "i", "o", "d", "e">>, "D">>,
    <<<<"b", "j", "t">>, "Q">>,
    <<<<"m", "o", "s", "f", "e", "t">>, "M">>>>

IsCanonicalLabel(type) ==
    \E n \in 1..Len(CanonicalPrefixes) : CanonicalPrefixes[n][1] = type

PrefixOfLabel(type) ==
    LET n == CHOOSE n \in 1..Len(CanonicalPrefixes) : CanonicalPrefixes[n][1] = type
    IN  CanonicalPrefixes[n][2]

\* the node count of the arity table for a canonical label
ValidNodeCount(type, n) ==
    IF PrefixOfLabel(type) \in {"Q", "M"} THEN n \in {3, 4} ELSE n = 2

\* a component with a canonical label, a valid node count, a name that is a
\* string and a value that is a string or absent
CanonicalComponent(c) ==
    /\ WellShaped(c)
    /\ IsCanonicalLabel(c.type.v)
    /\ ValidNodeCount(c.type.v, Len(c.nodes.v))
    /\ c.name.t = "str"
    /\ Get(c, "value", PStr(<<>>)).t = "str"

\* C13: a component carrying one of the canonical type labels (resistor,
\* capacitor, inductor, voltage_source, current_source, diode, bjt, mosfet)
\* with a valid node count compiles to exactly one statement whose name begins
\* with R, C, L, V, I, D, Q, M respectively, and adds no error entry.
C13_CanonicalLabelsCompile ==
    [][(AtComponent /\ CanonicalComponent(components[ni]))
       => /\ Len(lines') = Len(lines) + 1
          /\ StartsWith(lines'[Len(lines')],
                        <<PrefixOfLabel(components[ni].type.v)>>)
          /\ errors' = errors]_vars

(***************************************************************************)
(* Statement names                                                         *)
(***************************************************************************)
\* every component declares a name and no two declare the same one
DeclaredNamesDistinct ==
    /\ \A n \in 1..Len(components) :
          WellShaped(components[n]) /\ components[n].name.t = "str"
    /\ \A m, n \in 1..Len(components) :
          m # n => components[m].name.v # components[n].name.v

\* the name of a statement: its first word
NameOfStatement(line) == Split(line, " ")[1]

\* C14: in the netlist of a component list whose declared names are pairwise
\* distinct no two component statements carry the same name.
C14_StatementNamesUnique ==
    (npc = "returned" /\ DeclaredNamesDistinct) =>
        \A m, n \in Positions(lines, IsComponentLine) :
            m # n => NameOfStatement(lines[m]) # NameOfStatement(lines[n])

(***************************************************************************)
(* Claims about detect_circuit_components and analyze_circuit_image        *)
(***************************************************************************)
\* the sources were run: the image could be read
SourcesRan == result.error # "Could not load image"

\* what a source contributes according to the failure rule: nothing when an
\* exception was raised in it, its findings otherwise
Contribution(source, found) == IF source \in raised THEN <<>> ELSE found

\* C15: a detection source that raises or returns nothing contributes zero
\* detections, the detections of the remaining sources are still fused and
\* returned, and when every source contributes nothing the result is an empty
\* component list with no error.
C15_GracefulDegradation ==
    (dpc = "returned" /\ SourcesRan) =>
        /\ result.error = "None"
        /\ result.components =
              classify_circuit_components(
                  combine_detections(Contribution("yolo", yolo_components),
                                     Contribution("opencv", opencv_components),
                                     Contribution("pattern", pattern_components)))
        /\ (yolo_components = <<>> /\ opencv_components = <<>>
                /\ pattern_components = <<>>) => result.components = <<>>

\* C16: the number of components retained for one image never exceeds the
\* configured max_components cap (default 50); detections beyond the cap are
\* dropped.
C16_CapRespected ==
    dpc = "returned" =>
        Len(result.components) <= analysis_options.max_components

(***************************************************************************)
(* Order of the fused list                                                 *)
(***************************************************************************)
\* the places of a detection in the processing sequence
PlacesOf(d) == {p \in 1..Len(all_detections) : all_detections[p] = d}

\* C17: the list returned by _combine_detections is order-stable: every entry
\* is one of the input detections, no input detection appears twice, and the
\* retained detections keep the relative order of the processing sequence
\* (YOLO list, then OpenCV list, then pattern list).
C17_OrderStable ==
    fpc = "returned" =>
        /\ \A i \in 1..Len(combined) : PlacesOf(combined[i]) # {}
        /\ \A i, j \in 1..Len(combined) :
              i < j => /\ combined[i] # combined[j]
                       /\ \A p \in PlacesOf(combined[i]) :
                            \A q \in PlacesOf(combined[j]) : p < q

\* a fusion has returned two or more detections after one of them replaced an
\* accepted detection
C17_Witness ==
    /\ fpc = "returned"
    /\ Len(combined) >= 2
    /\ \E p, q \in 1..Len(all_detections) :
          /\ p < q
          /\ is_overlap(all_detections[p], all_detections[q])
          /\ Wins(all_detections[q], all_detections[p])
          /\ InCombined(all_detections[q])
          /\ ~InCombined(all_detections[p])

(***************************************************************************)
(* Ground                                                                  *)
(***************************************************************************)
\* a record with the required fields whose type is ground, gnd or vss
IsGround(c) == WellShaped(c) /\ SpiceTypeOf(c) = "GND"

\* C18: compiling a ground-typed component (ground, gnd, vss) adds no netlist
\* statement and no error entry and leaves every name counter and the
\* statements of all other components unchanged.
C18_GroundSilent ==
    [][(AtComponent /\ IsGround(components[ni]))
       => /\ lines' = lines
          /\ errors' = errors
          /\ component_counters' = component_counters
          /\ ni' = ni + 1]_vars

\* a netlist was returned for a ground followed by a component with a statement
C18_Witness ==
    /\ npc = "returned"
    /\ Len(components) = 2
    /\ IsGround(components[1])
    /\ Cardinality(Positions(lines, IsComponentLine)) = 1
    /\ errors = <<>>

(***************************************************************************)
(* Replacement of an accepted detection                                    *)
(***************************************************************************)
\* C20: when an incoming detection replaces an accepted one (IoU above 0.5 and
\* strictly higher confidence) it takes the list position of the entry it
\* replaced and all other accepted entries keep their positions; when it has
\* lower or equal confidence the accepted list is left unchanged.
C20_ReplaceInPlace ==
    [][(fpc = "loop" /\ fk <= Len(all_detections))
       => LET detection == all_detections[fk]
              p == FirstOverlap(detection, combined)
          IN  p > 0 =>
                IF Wins(detection, combined[p])
                THEN combined' = [combined EXCEPT ![p] = detection]
                ELSE combined' = combined]_vars

(***************************************************************************)
(* Concurrent compilations                                                 *)
(***************************************************************************)
\* C19: two json_to_netlist compilations whose per-component steps interleave
\* in any order each return the netlist (and the errors) they return when run
\* alone, and no compile or validate step writes the shared tables
\* COMPONENT_MAPPING and DEFAULT_VALUES.
C19_CallsIsolated ==
    /\ tables = SharedTables
    /\ \A p \in DOMAIN calls :
          calls[p].pc \in {"returned", "validated"} =>
              LET alone == json_to_netlist(calls[p].components)
              IN  /\ ~alone.raised
                  /\ calls[p].text = alone.text
                  /\ calls[p].components # <<>> => calls[p].errors = alone.errors

\* both calls have returned, each with two statements of its own
C19_Witness ==
    /\ DOMAIN calls = Calls
    /\ \A p \in Calls :
          /\ calls[p].pc = "returned"
          /\ Len(calls[p].components) = 2
          /\ Cardinality(Positions(calls[p].lines, IsComponentLine)) >= 2
    /\ calls[1].text # calls[2].text

(***************************************************************************)
(* Synthesized statement names                                             *)
(***************************************************************************)
\* the locals of the compilation as it reaches component number k
LocalsBefore(k) ==
    LoopFrom(Locals(InitialLines, <<>>, InitialCounters, FALSE),
             SubSeq(components, 1, k - 1), 1)

\* component number k is written as a statement
Emits(k) ==
    LET c == components[k]
        checked == validate_component(c)
        spice_line == get_component_spice_line(c, LocalsBefore(k).component_counters)
    IN  ~checked.raised /\ checked.ok /\ ~spice_line.none

\* the prefix the name of component number k is synthesized with, "" when
\* the declared name is kept
SynthesizedPrefix(k) ==
    LET c == components[k]
        st == SpiceTypeOf(c)
    IN  IF st \in {"LOGIC", "OP", "ST", "IC"} THEN "E"
        ELSE IF st \in {"PROBE", "TERM", "CROSS", "SW", "OC"} THEN "R"
        ELSE IF st \in {"R", "C", "L", "V", "I", "D", "Q", "M"}
                /\ ~StartsWith(c.name.v, <<st>>) THEN st
        ELSE ""

\* the name of the statement of component number k
StatementNameOf(k) ==
    NameOfStatement(
        get_component_spice_line(components[k],
                                 LocalsBefore(k).component_counters).text)

\* C21: a declared name that starts with the prefix letter of its type is
\* kept; any other statement is named <Prefix><n> with n from the per-prefix
\* counter, and the counter values of successive synthesized names of one
\* prefix are strictly increasing, simplified components and behavioral
\* stand-ins included.
C21_SynthesizedNamesIncrease ==
    npc = "returned" =>
        /\ \A k \in 1..Len(components) :
              (Emits(k) /\ SpiceTypeOf(components[k]) # "T") =>
                  IF SynthesizedPrefix(k) = ""
                  THEN StatementNameOf(k) = components[k].name.v
                  ELSE StatementNameOf(k) =
                          <<SynthesizedPrefix(k)>> \o
                          IntToStr(LocalsBefore(k).component_counters[SynthesizedPrefix(k)])
        /\ \A j, k \in 1..Len(components) :
              (/\ j < k
               /\ Emits(j) /\ Emits(k)
               /\ SpiceTypeOf(components[j]) # "T"
               /\ SpiceTypeOf(components[k]) # "T"
               /\ SynthesizedPrefix(j) # ""
               /\ SynthesizedPrefix(j) = SynthesizedPrefix(k))
              => LocalsBefore(j).component_counters[SynthesizedPrefix(j)]
                    < LocalsBefore(k).component_counters[SynthesizedPrefix(k)]

\* C22: compiling a 4-node transformer advances the inductor counter by two
\* and the coupling counter by one in the same step, so that later inductor
\* and coupling names differ from the three names the transformer used.
C22_TransformerCounters ==
    [][(AtComponent /\ IsTransformer4(components[ni]))
       => /\ component_counters'["L"] = component_counters["L"] + 2
          /\ component_counters'["K"] = component_counters["K"] + 1]_vars


(***************************************************************************)
(* Claims about the assembler                                              *)
(***************************************************************************)
AssembledRecords == {assembled[k] : k \in 1..Len(assembled)}

Classifying == dpc = "combine" /\ fpc = "returned"

ClassifyLeavesFused == Classifying => combined' = combined
AssemblerLeavesResult == apc # "idle" => integrated_result' = integrated_result
CompilerLeavesComponents == npc # "idle" => components' = components

\* C25: no stage changes a data structure an earlier stage returned: the
\* classification leaves the detection records of the fused list as they were,
\* the assembler leaves the detector result as it was, and json_to_netlist
\* leaves the component records as they were
C25_StagesLeaveInputs ==
    [][/\ ClassifyLeavesFused
       /\ AssemblerLeavesResult
       /\ CompilerLeavesComponents]_vars

(***************************************************************************)
(* Claims about normalize_value                                            *)
(***************************************************************************)
\* the value a component record carries, as json_to_netlist hands it on
ValueOf(c) == Get(c, "value", PStr(<<>>))

\* a number followed by at most one engineering suffix, in either case
NumberWithSuffix(s) ==
    \E d \in 1..Len(s) :
        /\ IsNumber(SubSeq(s, 1, d))
        /\ LET rest == SubSeq(s, d + 1, Len(s))
           IN  \/ rest = <<>>
               \/ \E x \in EngineeringSuffixes : Lower(rest) = Lower(<<x>>)

NormalizesCleanly(v) ==
    LET norm == normalize_value(v)
    IN  /\ ~norm.raised
        /\ norm.none \/ NumberWithSuffix(norm.value)

\* C26: normalize_value is total: for every value a component record carries
\* (a string, a number, no value) it does not raise and returns None or a
\* well-formed number followed by at most one engineering suffix
C26_NormalizeTotal ==
    \A k \in 1..Len(components) :
        components[k].isDict => NormalizesCleanly(ValueOf(components[k]))

\* the result keeps the digits and the suffix of the input (in either case)
\* and nothing else
KeepsSuffix(in, norm) ==
    /\ ~norm.raised /\ ~norm.none
    /\ Len(norm.value) = Len(in.digits) + 1
    /\ SubSeq(norm.value, 1, Len(in.digits)) = in.digits
    /\ LowerChar(norm.value[Len(norm.value)]) = LowerChar(in.suffix)

\* C27: normalize_value preserves the engineering suffix: two values with the
\* same digits and different suffixes among p, n, u, m, k, M, G normalize to
\* different results (milli 'm' and mega 'M' stay apart), and a unit symbol
\* after the suffix is removed without changing the suffix
C27_SuffixPreserved ==
    vpc = "returned" =>
        /\ \A i \in 1..2 : KeepsSuffix(inputs[i], normalized[i])
        /\ inputs[1].suffix # inputs[2].suffix => normalized[1] # normalized[2]

(***************************************************************************)
(* Ground reference and default models                                     *)
(***************************************************************************)
\* the words of a component statement after its name
OperandsOf(line) == Tail(Split(line, " "))

\* the statement has the net "0" (or gnd) among its operands
TouchesGround(line) ==
    LET ws == OperandsOf(line)
    IN  \E n \in 1..Len(ws) : ws[n] = <<"0">> \/ Lower(ws[n]) = <<"g", "n", "d">>

\* no component statement of the netlist is connected to ground
NoStatementOnGround(netlist) ==
    LET ls == Split(Strip(netlist), "\n")
    IN  \A n \in 1..Len(ls) : IsComponentLine(ls[n]) => ~TouchesGround(ls[n])

\* C28: the validator reports 'No ground reference (node 0) found' for every
\* netlist in which no component statement has "0" (or gnd) among its nodes,
\* so that a netlist json_to_netlist generates from components none of which
\* is connected to net "0" is not reported valid
C28_GroundReferenceReported ==
    (npc = "validated" /\ NoStatementOnGround(netlist_str)) =>
        /\ \E n \in 1..Len(validation.reasons) :
                validation.reasons[n] = "No ground reference (node 0) found"
        /\ ~validation.valid

\* the names the model block of every non-empty netlist defines
DefinedModels ==
    {Split(ClosingLines[n], " ")[2] :
        n \in {m \in 1..Len(ClosingLines) :
                  StartsWith(ClosingLines[m], <<".", "m", "o", "d", "e", "l", " ">>)}}

GenericModels == {<<"D", "G", "E", "N", "E", "R", "I", "C">>, <<"Q", "G", "E", "N", "E", "R", "I", "C">>, <<"M", "G", "E", "N", "E", "R", "I", "C">>}

\* the model word of a diode statement (after two nodes) or of a BJT or
\* MOSFET statement (after three nodes)
ModelWord(line, spice_type) ==
    Split(line, " ")[IF spice_type = "D" THEN 4 ELSE 5]

\* C29: a diode, BJT or MOSFET that supplies neither a model nor a parseable
\* value gets a statement whose model name is one of the generic models
\* DGENERIC, QGENERIC, MGENERIC, which the model block of the same netlist
\* defines with a .model line
C29_DefaultModelDefined ==
    [][(/\ AtComponent
        /\ WellShaped(components[ni])
        /\ SpiceTypeOf(components[ni]) \in {"D", "Q", "M"}
        /\ "model" \notin components[ni].keys
        /\ ValueUnparseable(components[ni])
        /\ lines' # lines) =>
            LET model == ModelWord(lines'[Len(lines')], SpiceTypeOf(components[ni]))
            IN  model \in GenericModels /\ model \in DefinedModels
      ]_vars

(***************************************************************************)
(* The strongest detection                                                 *)
(***************************************************************************)
\* the input at place p has strictly higher confidence than every other input
StrictlyHighest(p) ==
    \A q \in 1..Len(all_detections) :
        q # p => all_detections[q].confidence < all_detections[p].confidence

\* C30: an input detection whose confidence is strictly higher than that of
\* every other input detection is in the list _combine_detections returns,
\* whatever the order of the inputs and the overlaps among them
C30_HighestConfidenceKept ==
    fpc = "returned" =>
        \A p \in 1..Len(all_detections) :
            StrictlyHighest(p) => InCombined(all_detections[p])

\* the strongest detection came after a weaker one it overlaps and took its
\* place, and a third detection overlapping it came later still
C30_Witness ==
    /\ fpc = "returned"
    /\ \E p \in 2..Len(all_detections) :
          /\ StrictlyHighest(p)
          /\ InCombined(all_detections[p])
          /\ p < Len(all_detections)
          /\ \E q \in 1..(p - 1) :
                /\ is_overlap(all_detections[p], all_detections[q])
                /\ ~InCombined(all_detections[q])
          /\ \E r \in (p + 1)..Len(all_detections) :
                is_overlap(all_detections[r], all_detections[p])


=============================================================================
